---- MODULE Spec2Model ----
(***************************************************************************)
(* Send console of alpha-tech-x: the upload / review / send state machine  *)
(* of components/upload-send-console.tsx, the send endpoint                *)
(* (api/send-email POST) and the audit-log query of                        *)
(* app/actions/send-logs.ts.                                               *)
(*                                                                         *)
(* React semantics kept by the model: an event handler is a closure over   *)
(* the state of the render it was created in.  A click runs the handler of *)
(* the latest render; the rows of a bulk run are sent by the closure of    *)
(* the render in which the bulk button was clicked (rowSendStates,         *)
(* zipFilename and the row objects are that render's), while functional    *)
(* state updates (setRowSendStates(current => ...)) and refs (zipRef) act  *)
(* on the current value.  Every await splits a handler into steps.         *)
(***************************************************************************)
EXTENDS Integers, Sequences, FiniteSets, TLC

\* ------------------------------------------------------------------ bounds
MaxAttempts == 3
MaxUploads == 2
MaxPrior == 2
MaxLog == 3
MaxMsgLen == 6
MaxCallAttempts == 2   \* attempts after which a function invoked on its own is not invoked again

\* ------------------------------------------------------------- vocabulary
Null == "null"
NoSummary == [zipFilename |-> Null]
NoBulk == [active |-> FALSE, mode |-> "none", queue |-> <<>>, snap |-> <<>>, zip |-> ""]
NoParse == Null

Keys == {"K1", "K2"}
GoodEmail == "a@x.io"
Emails == {Null, "", GoodEmail}

\* Strings, character by character (a character is a string of length 1).
Char(str, i) == SubSeq(str, i, i)
CharsOf(str) == { Char(str, i) : i \in 1..Len(str) }

LowerLetters == "abcdefghijklmnopqrstuvwxyz"
UpperLetters == "ABCDEFGHIJKLMNOPQRSTUVWXYZ"
Letters == CharsOf(LowerLetters) \cup CharsOf(UpperLetters)
Digits == CharsOf("0123456789")
WordChars == Letters \cup Digits \cup {"_"}            \* \w
LocalChars == Letters \cup Digits \cup CharsOf("._%+-")  \* [A-Z0-9._%+-] with /i
DomainChars == Letters \cup Digits \cup CharsOf(".-")    \* [A-Z0-9.-] with /i

LowerChar(c) ==
  IF c \in CharsOf(UpperLetters)
  THEN Char(LowerLetters, CHOOSE i \in 1..Len(UpperLetters) : Char(UpperLetters, i) = c)
  ELSE c

RECURSIVE toLowerCase(_)
toLowerCase(str) ==
  IF str = "" THEN "" ELSE LowerChar(Head(str)) \o toLowerCase(Tail(str))

RECURSIVE trimStart(_)
trimStart(str) == IF str /= "" /\ Head(str) = " " THEN trimStart(Tail(str)) ELSE str

RECURSIVE trimEnd(_)
trimEnd(str) ==
  IF str /= "" /\ Char(str, Len(str)) = " " THEN trimEnd(SubSeq(str, 1, Len(str) - 1)) ELSE str

trim(str) == trimEnd(trimStart(str))

\* indexOf(c, from) over 1-based positions; 0 if there is none.
RECURSIVE IndexOf(_, _, _)
IndexOf(str, c, from) ==
  IF from > Len(str) THEN 0
  ELSE IF Char(str, from) = c THEN from ELSE IndexOf(str, c, from + 1)

\* lastIndexOf(c) over 1-based positions; 0 if there is none.
RECURSIVE LastIndexOf(_, _, _)
LastIndexOf(str, c, from) ==
  IF from < 1 THEN 0
  ELSE IF Char(str, from) = c THEN from ELSE LastIndexOf(str, c, from - 1)

startsWith(str, prefix) ==
  Len(str) >= Len(prefix) /\ SubSeq(str, 1, Len(prefix)) = prefix

endsWith(str, suffix) ==
  Len(str) >= Len(suffix) /\ SubSeq(str, Len(str) - Len(suffix) + 1, Len(str)) = suffix

\* The archives an operator can upload: name -> manifest rows and entries.
ZipNames == {"a.zip", "b.zip"}

ParsedRow(k, p, f) == [account_key |-> k, zip_entry_path |-> p, pdf_filename |-> f]

ZipRows(name) ==
  IF name = "a.zip"
  THEN << ParsedRow("K1", "p1.pdf", "p1.pdf"), ParsedRow("K2", "p2.pdf", "p2.pdf") >>
  ELSE << ParsedRow("K1", "p1.pdf", "p1.pdf"), ParsedRow("K1", "x/p3.pdf", "p3.pdf"),
          ParsedRow("K2", "x/p4.pdf", "p4.pdf"), ParsedRow("K2", "x/p5.pdf", "p5.pdf") >>

\* Object.values(zip.files): the names of the entries in the order of the
\* archive; the name of a directory ends with a slash.  b.zip is an archive
\* whose manifest paths differ from the paths of its entries.
ZipEntries(name) ==
  IF name = "a.zip" THEN << "p1.pdf", "p2.pdf" >>
  ELSE << "d/", "p1.pdf", "z/p4.pdf", "y/p4.pdf", "p3.pdf" >>

\* pathname.split("/"): the last part.
getBaseName(pathname) ==
  SubSeq(pathname, LastIndexOf(pathname, "/", Len(pathname)) + 1, Len(pathname))

\* String(value ?? "").trim()
normalizeZipFilename(name) == IF name = Null THEN "" ELSE trim(name)

\* ---------------------------------------------------------- pure functions
\* Variant: only a missing email blocks a row (an empty one does not).
getStatusFromEmailNullOnly(email) ==
  IF email /= Null THEN "Pending" ELSE "Blocked"

getStatusFromEmail(email) ==
  IF email /= Null /\ email /= "" THEN "Pending" ELSE "Blocked"

getRowId(row) == << row.account_key, row.zip_entry_path, row.pdf_filename >>

SeqToSet(s) == { s[i] : i \in 1..Len(s) }

uniqueAccountKeys(rs) == { rs[i].account_key : i \in 1..Len(rs) }

\* contactsByKey: function from a subset of Keys to an email (the store
\* answers for the keys it has a contact for).
mergeRowsWithContacts(parsed, contactsByKey) ==
  [ i \in 1..Len(parsed) |->
      LET contactEmail == IF parsed[i].account_key \in DOMAIN contactsByKey
                          THEN contactsByKey[parsed[i].account_key] ELSE Null
      IN [account_key |-> parsed[i].account_key,
          zip_entry_path |-> parsed[i].zip_entry_path,
          pdf_filename |-> parsed[i].pdf_filename,
          contact_email |-> contactEmail,
          status |-> getStatusFromEmail(contactEmail)] ]

\* Variant: the scan over the entries returns the last match.
findPdfEntryLastMatch(zip, row) ==
  LET files == ZipEntries(zip)
      IsFile(n) == \E i \in 1..Len(files) : files[i] = n /\ ~endsWith(n, "/")
      hits == { i \in 1..Len(files) :
                  /\ ~endsWith(files[i], "/")
                  /\ getBaseName(files[i]) = getBaseName(row.pdf_filename) }
  IN IF IsFile(row.zip_entry_path) THEN row.zip_entry_path
     ELSE IF IsFile(row.pdf_filename) THEN row.pdf_filename
     ELSE IF hits /= {} THEN files[CHOOSE i \in hits : \A j \in hits : j <= i]
     ELSE Null

\* zip.file(path), zip.file(filename), then the first entry in archive order
\* whose base name is that of the filename; directories never match.
findPdfEntry(zip, row) ==
  LET files == ZipEntries(zip)
      IsFile(n) == \E i \in 1..Len(files) : files[i] = n /\ ~endsWith(n, "/")
      hits == { i \in 1..Len(files) :
                  /\ ~endsWith(files[i], "/")
                  /\ getBaseName(files[i]) = getBaseName(row.pdf_filename) }
  IN IF IsFile(row.zip_entry_path) THEN row.zip_entry_path
     ELSE IF IsFile(row.pdf_filename) THEN row.pdf_filename
     ELSE IF hits /= {} THEN files[CHOOSE i \in hits : \A j \in hits : i <= j]
     ELSE Null

getDefaultSendState == [send_state |-> "idle", send_error |-> Null]

RowState(states, id) == IF id \in DOMAIN states THEN states[id] ELSE getDefaultSendState

setRowSendState(states, id, st, err) ==
  [ x \in (DOMAIN states) \cup {id} |->
      IF x = id THEN [send_state |-> st, send_error |-> err] ELSE states[x] ]


getReviewStatus(row, rowSendState, lastLogStatus) ==
  IF row.status = "Blocked" THEN "Blocked"
  ELSE IF rowSendState.send_state = "sent" THEN "Sent"
  ELSE IF rowSendState.send_state = "failed" THEN "Failed"
  ELSE IF lastLogStatus = "sent" THEN "Sent"
  ELSE IF lastLogStatus = "failed" THEN "Failed"
  ELSE "Pending"

\* ------------------------------------------------------- send endpoint
InsertOutcomes == {"ok", "error", "throws"}
PostOutcomes == {"unauthorized", "badRequest", "senderConfig", "ack", "noId", "threw"}
LoggedOutcomes == {"senderConfig", "ack", "noId", "threw"}

RawTransportError == "rejected rcpt john@x.io"

\* maskEmail: first two characters of the local part (one if it has at most
\* two), then ***@ and the domain.
maskEmail(email) ==
  LET normalized == toLowerCase(trim(email))
      at == IndexOf(normalized, "@", 1)
      at2 == IF at = 0 THEN 0 ELSE IndexOf(normalized, "@", at + 1)
      local == IF at = 0 THEN normalized ELSE SubSeq(normalized, 1, at - 1)
      domain == IF at = 0 THEN ""
                ELSE SubSeq(normalized, at + 1, IF at2 = 0 THEN Len(normalized) ELSE at2 - 1)
  IN IF local = "" \/ domain = "" THEN "***"
     ELSE IF Len(local) <= 2 THEN Char(local, 1) \o "***@" \o domain
     ELSE SubSeq(local, 1, 2) \o "***@" \o domain

\* \b between positions p - 1 and p.
WordBoundary(str, p) ==
  (p > 1 /\ Char(str, p - 1) \in WordChars) /= (p <= Len(str) /\ Char(str, p) \in WordChars)

\* Last position of the longest run of characters of class that starts at
\* p (p - 1 if the character at p is not in class).
RECURSIVE RunEnd(_, _, _)
RunEnd(str, p, class) ==
  IF p <= Len(str) /\ Char(str, p) \in class THEN RunEnd(str, p + 1, class) ELSE p - 1

\* EMAIL_IN_TEXT_PATTERN, /\b[A-Z0-9._%+-]+@[A-Z0-9.-]+\.[A-Z]{2,}\b/gi,
\* tried at position p: the last position of the match, 0 if there is
\* none.  The quantifiers are greedy: the local part is the whole run up to
\* the @, the domain backtracks from its longest run to the last dot that
\* is followed by two or more letters and a word boundary.
MatchEnd(str, p) ==
  LET at == RunEnd(str, p, LocalChars) + 1 IN
  IF ~WordBoundary(str, p) \/ at = p \/ at > Len(str) \/ Char(str, at) /= "@" THEN 0
  ELSE LET r == RunEnd(str, at + 1, DomainChars)
           dots == { d \in (at + 2)..r :
                       /\ Char(str, d) = "."
                       /\ RunEnd(str, d + 1, Letters) >= d + 2
                       /\ WordBoundary(str, RunEnd(str, d + 1, Letters) + 1) }
       IN IF dots = {} THEN 0
          ELSE RunEnd(str, (CHOOSE d \in dots : \A x \in dots : x <= d) + 1, Letters)

\* message.replace(EMAIL_IN_TEXT_PATTERN, (match) => maskEmail(match)) from
\* position p on.
RECURSIVE ReplaceFrom(_, _)
ReplaceFrom(str, p) ==
  IF p > Len(str) THEN ""
  ELSE LET e == MatchEnd(str, p) IN
       IF e > 0 THEN maskEmail(SubSeq(str, p, e)) \o ReplaceFrom(str, e + 1)
       ELSE Char(str, p) \o ReplaceFrom(str, p + 1)

sanitizeErrorMessage(message) == ReplaceFrom(message, 1)

NoResp == [status |-> 0, ok |-> FALSE, error |-> Null, messageId |-> Null]
Resp(code, isOk, err, mid) ==
  [status |-> code, ok |-> isOk, error |-> err, messageId |-> mid]

\* Variant: the entry is written without the transport's identifier.
SendLogDropsId(req, st, err, mid) ==
  [zip_filename |-> req.zip_filename, account_key |-> req.account_key,
   to_email |-> req.to_email, status |-> st, error |-> err, message_id |-> Null]

\* One insert into send_logs; sent_at is the store's now().
SendLog(req, st, err, mid) ==
  [zip_filename |-> req.zip_filename, account_key |-> req.account_key,
   to_email |-> req.to_email, status |-> st, error |-> err, message_id |-> mid]

\* Variant: the entry takes the place of the log's last entry.
SendLogInsertReplaces(logs, now, entry) ==
  IF logs = <<>> THEN << [entry EXCEPT !.sent_at = now] >>
  ELSE [logs EXCEPT ![Len(logs)] = [entry EXCEPT !.sent_at = now]]

\* supabase.from("send_logs").insert(log): a new row, sent_at defaulting to
\* the store's now().
SendLogInsert(logs, now, entry) == Append(logs, [entry EXCEPT !.sent_at = now])

\* writeSendLog: the insert may succeed, return an error or throw; both
\* failures are logged to the console and swallowed.
writeSendLogRethrows(logs, now, entry, ins) ==
  [logs |-> IF ins = "ok" THEN SendLogInsert(logs, now, entry) ELSE logs,
   threw |-> ins = "throws"]

writeSendLog(logs, now, entry, ins) ==
  [logs |-> IF ins = "ok" THEN SendLogInsert(logs, now, entry) ELSE logs,
   threw |-> FALSE]

Entry(req, st, err, mid) == SendLog(req, st, err, mid) @@ [sent_at |-> 0]

\* POST of the send endpoint for one request, given what the collaborators
\* do: outcome (authorization, validation, sender configuration, transport)
\* and ins (the audit insert).  Yields the new log, the response and whether
\* the transport was called.  A throw that escapes the handler gives a 500
\* without a JSON body.
Unhandled == Resp(500, FALSE, Null, Null)

\* The message of the catch block for an error thrown with message raw.
CatchMessage(raw) ==
  sanitizeErrorMessage(IF trim(raw) /= "" THEN raw ELSE "Failed to send email.")

\* Variant: the catch block answers without writing the log.
POSTCatchNoLog(logs, now, req, message, ins) ==
  [logs |-> logs, resp |-> Resp(500, FALSE, message, Null), transport |-> TRUE]

\* The catch block of POST (transport or anything else in the try threw).
POSTCatch(logs, now, req, message, ins) ==
  LET w == writeSendLog(logs, now, Entry(req, "failed", message, Null), ins)
  IN [logs |-> w.logs,
      resp |-> IF w.threw THEN Unhandled ELSE Resp(500, FALSE, message, Null),
      transport |-> TRUE]

\* The message the catch block stores and returns for RawTransportError.
TransportErrorMessage == CatchMessage(RawTransportError)

POST(logs, now, req, outcome, ins) ==
  IF outcome = "unauthorized"
  THEN [logs |-> logs, resp |-> Resp(401, FALSE, "Not authorized.", Null), transport |-> FALSE]
  ELSE IF outcome = "badRequest"
  THEN [logs |-> logs, resp |-> Resp(400, FALSE, "pdf_base64 is required.", Null),
        transport |-> FALSE]
  ELSE IF outcome = "senderConfig"
  THEN LET message == "GMAIL_SENDER_EMAIL is missing or invalid."
           w == writeSendLog(logs, now, Entry(req, "failed", message, Null), ins)
       IN [logs |-> w.logs,
           resp |-> IF w.threw THEN Unhandled ELSE Resp(500, FALSE, message, Null),
           transport |-> FALSE]
  ELSE IF outcome = "threw"
  THEN POSTCatch(logs, now, req, TransportErrorMessage, ins)
  ELSE IF outcome = "noId"
  THEN LET message == "Failed to send email."
           w == writeSendLog(logs, now, Entry(req, "failed", message, Null), ins)
       IN IF w.threw THEN POSTCatch(w.logs, now, req, "Failed to send email.", ins)
          ELSE [logs |-> w.logs, resp |-> Resp(500, FALSE, message, Null), transport |-> TRUE]
  ELSE LET w == writeSendLog(logs, now, Entry(req, "sent", Null, "msg"), ins)
       IN IF w.threw THEN POSTCatch(w.logs, now, req, "Failed to send email.", ins)
          ELSE [logs |-> w.logs, resp |-> Resp(200, TRUE, Null, "msg"), transport |-> TRUE]

\* ------------------------------------------------------- audit-log query
\* The store yields the matching entries ordered by sent_at descending; the
\* reduce keeps the first entry seen for each key.
RECURSIVE MatchingDesc(_, _, _, _)
MatchingDesc(logs, zip, keys, n) ==
  IF n = 0 THEN <<>>
  ELSE IF logs[n].zip_filename = zip /\ logs[n].account_key \in keys
       THEN <<logs[n]>> \o MatchingDesc(logs, zip, keys, n - 1)
       ELSE MatchingDesc(logs, zip, keys, n - 1)

RECURSIVE ReduceLast(_, _)
ReduceLast(data, acc) ==
  IF data = <<>> THEN acc
  ELSE LET row == Head(data) IN
       IF row.account_key \in DOMAIN acc THEN ReduceLast(Tail(data), acc)
       ELSE ReduceLast(Tail(data),
              [k \in (DOMAIN acc) \cup {row.account_key} |->
                 IF k = row.account_key
                 THEN [status |-> row.status, sent_at |-> row.sent_at]
                 ELSE acc[k]])

EmptyMap == [x \in {} |-> Null]

Reverse(seq) == [ i \in 1..Len(seq) |-> seq[Len(seq) + 1 - i] ]

\* Variant: the entries are read in ascending order of sent_at, so the
\* reduce keeps the oldest entry of each key.
getLastSendStatusForZipAscending(logs, zip_filename, accountKeys, qok) ==
  IF ~qok THEN EmptyMap
  ELSE IF normalizeZipFilename(zip_filename) = "" \/ accountKeys = {} THEN EmptyMap
  ELSE ReduceLast(Reverse(MatchingDesc(logs, normalizeZipFilename(zip_filename),
                                       accountKeys, Len(logs))),
                  EmptyMap)

\* qok = FALSE: the caller is not an admin or the store query failed.
getLastSendStatusForZip(logs, zip_filename, accountKeys, qok) ==
  IF ~qok THEN EmptyMap
  ELSE IF normalizeZipFilename(zip_filename) = "" \/ accountKeys = {} THEN EmptyMap
  ELSE ReduceLast(MatchingDesc(logs, normalizeZipFilename(zip_filename), accountKeys, Len(logs)),
                  EmptyMap)

\* ------------------------------------------------------------------ state
VARIABLES
  rows,                \* useState rows: the reconciled rows of the session
  rowSendStates,       \* useState rowSendStates: row id -> send state (absent = idle)
  selectedRowIds,      \* useState selectedRowIds, as the set of selected ids
  skipAlreadySent,     \* useState skipAlreadySent
  lastLogStatusByKey,  \* useState lastLogStatusByKey: key -> last audit status
  summary,             \* useState summary (zipFilename) or NoSummary
  isParsingZip, isMutating, isSendingAll,
  actionError,         \* useState actionError
  addContactState,     \* account key of the open add-contact form, or Null
  zipRef,              \* zipRef.current: name of the decoded archive, or Null
  parsing,             \* the upload being parsed (file name), or Null
  mutation,            \* the add-contact transition in progress
  bulk,                \* the bulk run in progress: closure of the click's render
  attempts,            \* the calls of sendEmailForRow under way, in start order
  send_logs,           \* table send_logs, in insertion order
  nStarted,            \* number of attempts started so far
  nUploads,            \* number of uploads started so far
  sentEarlier,         \* history: <<archive, key>> of the rows that were sent in
                       \* a session that an upload has since replaced
  call                 \* a function of the program applied on its own: the
                       \* function, its argument and its result

vars == << rows, rowSendStates, selectedRowIds, skipAlreadySent, lastLogStatusByKey,
           summary, isParsingZip, isMutating, isSendingAll, actionError,
           addContactState, zipRef, parsing, mutation, bulk, attempts, send_logs,
           nStarted, nUploads, sentEarlier, call >>

NoMutation == [key |-> Null, phase |-> "none", zip |-> ""]
NoCall == [of |-> "none", arg |-> Null, res |-> Null]
NoQ == [ok |-> FALSE, present |-> FALSE, status |-> Null, sent_at |-> 0]

\* const zipFilename = summary?.zipFilename.trim() ?? ""
\* summary?.zipFilename.trim() ?? ""
zipFilename == IF summary = NoSummary THEN "" ELSE trim(summary.zipFilename)

RowIdsOf(rs) == { getRowId(rs[i]) : i \in 1..Len(rs) }

\* lastLogStatusByKey[key]?.status ?? null.  The cache is modelled as key ->
\* status: the sent_at it also holds is never read by the component.
LastStatus(m, key) == IF key \in DOMAIN m THEN m[key] ELSE Null

StatusOnly(latest) == [ k \in DOMAIN latest |-> latest[k].status ]

\* The selection-pruning effect that runs whenever rows change.
PruneSelection(sel, rs) == { id \in sel : id \in RowIdsOf(rs) }

\* The state of a freshly loaded page over an empty log.
FreshPage ==
  /\ rows = <<>>
  /\ rowSendStates = EmptyMap
  /\ selectedRowIds = {}
  /\ skipAlreadySent = TRUE
  /\ lastLogStatusByKey = EmptyMap
  /\ summary = NoSummary
  /\ isParsingZip = FALSE
  /\ isMutating = FALSE
  /\ isSendingAll = FALSE
  /\ actionError = ""
  /\ addContactState = Null
  /\ zipRef = Null
  /\ parsing = NoParse
  /\ mutation = NoMutation
  /\ bulk = NoBulk
  /\ attempts = <<>>
  /\ send_logs = <<>>
  /\ nStarted = 0
  /\ nUploads = 0
  /\ sentEarlier = {}

Init == FreshPage /\ call = NoCall

\* --------------------------------------------------------- collaborators
\* What the contact store can answer for a key set: a contact (with its
\* email) for some of the keys; the empty mapping also stands for a failed
\* lookup or a caller who is not an admin.
\* stores: the contents the contact store may have (key -> email, for the
\* keys that have a contact).
Restrict(m, S) == [ k \in (DOMAIN m) \cap S |-> m[k] ]

ContactResults(stores, keys) == { Restrict(m, keys) : m \in stores } \cup { EmptyMap }

AllPending == { [ k \in Keys |-> GoodEmail ] }

UiIdle == ~isParsingZip /\ ~isMutating /\ ~isSendingAll

\* The <<archive, key>> of the rows shown as sent in the session on screen.
SentNow ==
  { << zipFilename, rows[i].account_key >> :
      i \in { j \in 1..Len(rows) :
                RowState(rowSendStates, getRowId(rows[j])).send_state = "sent" } }

\* ------------------------------------------------------------ upload/parse
\* parseUploadedZip up to its first await (the upload input is disabled
\* while isParsingZip || isMutating || isSendingAll).
ParseStart(f) ==
  /\ UiIdle
  /\ nUploads < MaxUploads
  /\ nUploads' = nUploads + 1
  /\ sentEarlier' = sentEarlier \cup SentNow
  /\ parsing' = f
  /\ isParsingZip' = TRUE
  /\ actionError' = ""
  /\ addContactState' = Null
  /\ rowSendStates' = EmptyMap
  /\ selectedRowIds' = {}
  /\ lastLogStatusByKey' = EmptyMap
  /\ UNCHANGED << rows, skipAlreadySent, summary, isMutating, isSendingAll, zipRef,
                  mutation, bulk, attempts, send_logs, nStarted, call >>

\* parseUploadedZip after its awaits: archive decoded, contacts and last
\* audit statuses fetched, session state replaced.
ParseDone(stores, qoks) ==
  /\ parsing /= NoParse
  /\ \E contactsByKey \in ContactResults(stores, uniqueAccountKeys(ZipRows(parsing))),
        qok \in qoks :
       LET parsedRows == ZipRows(parsing)
           accountKeys == uniqueAccountKeys(parsedRows)
           latestStatusByKey == getLastSendStatusForZip(send_logs, parsing, accountKeys, qok)
           mergedRows == mergeRowsWithContacts(parsedRows, contactsByKey)
       IN /\ zipRef' = parsing
          /\ rows' = mergedRows
          /\ rowSendStates' = EmptyMap
          /\ selectedRowIds' = PruneSelection({}, mergedRows)
          /\ lastLogStatusByKey' = StatusOnly(latestStatusByKey)
          /\ summary' = [zipFilename |-> parsing]
  /\ parsing' = NoParse
  /\ isParsingZip' = FALSE
  /\ UNCHANGED << skipAlreadySent, isMutating, isSendingAll, actionError,
                  addContactState, mutation, bulk, attempts, send_logs, nStarted, nUploads, sentEarlier, call >>

\* parseUploadedZip when decoding or a server action throws: the catch block.
ParseFail ==
  /\ parsing /= NoParse
  /\ rows' = <<>>
  /\ rowSendStates' = EmptyMap
  /\ selectedRowIds' = {}
  /\ lastLogStatusByKey' = EmptyMap
  /\ summary' = NoSummary
  /\ parsing' = NoParse
  /\ isParsingZip' = FALSE
  /\ UNCHANGED << skipAlreadySent, isMutating, isSendingAll, actionError,
                  addContactState, zipRef, mutation, bulk, attempts, send_logs, nStarted, nUploads, sentEarlier, call >>

\* --------------------------------------------------------- sendEmailForRow
\* The guards of sendEmailForRow, evaluated on the closure's rowSendStates
\* (snap) and zipFilename (zip): "busy" returns at once, "noEmail" and
\* "noZip" mark the row failed and return, "start" enters the try block.
SendGuard(row, snap, zip) ==
  IF RowState(snap, getRowId(row)).send_state = "sending" THEN "busy"
  ELSE IF row.contact_email = Null \/ row.contact_email = "" THEN "noEmail"
  ELSE IF zip = "" THEN "noZip"
  ELSE "start"

\* A bulk loop (or a single click, a loop over one row) from the point
\* where it calls sendEmailForRow for Head(queue): rows whose call returns
\* without awaiting are consumed; it stops at the first row that starts an
\* attempt, or at the end of the list.  cur is the current rowSendStates.
RECURSIVE RunLoop(_, _, _, _)
RunLoop(queue, snap, zip, cur) ==
  IF queue = <<>> THEN [states |-> cur, rest |-> <<>>, start |-> FALSE]
  ELSE LET row == Head(queue)
           g == SendGuard(row, snap, zip)
       IN IF g = "busy" THEN RunLoop(Tail(queue), snap, zip, cur)
          ELSE IF g = "noEmail"
          THEN RunLoop(Tail(queue), snap, zip,
                 setRowSendState(cur, getRowId(row), "failed", "No contact email available."))
          ELSE IF g = "noZip"
          THEN RunLoop(Tail(queue), snap, zip,
                 setRowSendState(cur, getRowId(row), "failed",
                                 "ZIP filename is unavailable. Re-upload the file."))
          ELSE [states |-> cur, rest |-> queue, start |-> TRUE]

\* The try block of sendEmailForRow up to its first await: the row is set
\* to sending and the PDF is looked up in zipRef.current; a missing archive
\* or PDF throws, the catch marks the row failed and the finally block
\* issues the audit query.
PdfFound(row) == zipRef /= Null /\ findPdfEntry(zipRef, row) /= Null

\* now() of the log store: logical time that advances with every insert.
now == Len(send_logs) + 1

\* The record of one call of sendEmailForRow that passed its guards.  phase:
\* "sending" (row set to sending, bytes being encoded or request under way),
\* "responded" (endpoint done, response under way), "query" (row settled,
\* audit query under way), "queried" (query answered); a call that returned
\* is removed.  started is the store's time when the call started, upload
\* the upload session (nUploads) in which it started, entry the archive
\* entry that findPdfEntry returned for the row; outcome,
\* ins and logged_at record what the endpoint did with the request
\* (logged_at: sent_at of the entry it wrote, 0 if none); thrown: the catch
\* block settled the row, not a response.
NewAttempt(row, zip, isBulk) ==
  [row |-> row, zip |-> zip, bulk |-> isBulk,
   phase |-> IF PdfFound(row) THEN "sending" ELSE "query",
   started |-> now, upload |-> nUploads,
   entry |-> IF zipRef = Null THEN Null ELSE findPdfEntry(zipRef, row),
   outcome |-> "none", ins |-> "none", resp |-> NoResp, logged_at |-> 0,
   final |-> IF PdfFound(row) THEN "none" ELSE "failed",
   thrown |-> ~PdfFound(row),
   q |-> NoQ]

RemoveAt(seq, i) == SubSeq(seq, 1, i - 1) \o SubSeq(seq, i + 1, Len(seq))

\* What a bulk run's closure reads of its render's rowSendStates: whether a
\* row was sending when the button was clicked.
BusySnap(states) ==
  [ id \in { x \in DOMAIN states : states[x].send_state = "sending" } |-> states[id] ]

StatesAfterStart(cur, row) ==
  IF PdfFound(row)
  THEN setRowSendState(cur, getRowId(row), "sending", Null)
  ELSE setRowSendState(cur, getRowId(row), "failed",
         IF zipRef = Null THEN "ZIP data is not available. Re-upload the file."
         ELSE "Could not find PDF in ZIP: " \o row.pdf_filename)

\* Runs the loop from queue on; atts is attempts as left by the caller.
\* mode: "single" for a click on a row, else the bulk mode of the run (the
\* run owns isSendingAll and bulk).
Advance(atts, queue, snap, zip, mode, errIfNone) ==
  LET isBulk == mode /= "single" IN
  LET r == RunLoop(queue, snap, zip, rowSendStates) IN
  IF r.start
  THEN LET row == Head(r.rest) IN
       /\ nStarted < MaxAttempts
       /\ nStarted' = nStarted + 1
       /\ rowSendStates' = StatesAfterStart(r.states, row)
       /\ attempts' = Append(atts, NewAttempt(row, zip, isBulk))
       /\ actionError' = ""
       /\ IF isBulk
          THEN /\ bulk' = [active |-> TRUE, mode |-> mode, queue |-> Tail(r.rest),
                        snap |-> BusySnap(snap), zip |-> zip]
               /\ isSendingAll' = TRUE
          ELSE UNCHANGED << bulk, isSendingAll >>
  ELSE /\ rowSendStates' = r.states
       /\ attempts' = atts
       /\ nStarted' = nStarted
       /\ actionError' = errIfNone
       /\ IF isBulk
          THEN bulk' = NoBulk /\ isSendingAll' = FALSE
          ELSE UNCHANGED << bulk, isSendingAll >>

\* Click on a row's Send / Retry button (rendered for Pending rows; disabled
\* while !zipFilename, parsing, mutating, a bulk run, or the row is sending
\* or sent).
ClickSend(i) ==
  /\ i \in 1..Len(rows)
  /\ rows[i].status = "Pending"
  /\ zipFilename /= ""
  /\ UiIdle
  /\ RowState(rowSendStates, getRowId(rows[i])).send_state \notin {"sending", "sent"}
  /\ Advance(attempts, << rows[i] >>, rowSendStates, zipFilename, "single", actionError)
  /\ UNCHANGED << rows, selectedRowIds, skipAlreadySent, lastLogStatusByKey, summary,
                  isParsingZip, isMutating, addContactState, zipRef, parsing, mutation,
                  send_logs, nUploads, sentEarlier, call >>

\* -------------------------------------------- the awaits of one attempt
InPhase(i, ph) == i \in 1..Len(attempts) /\ attempts[i].phase = ph

Request(i) ==
  [zip_filename |-> attempts[i].zip,
   account_key |-> attempts[i].row.account_key,
   to_email |-> attempts[i].row.contact_email]

\* Variant: the catch block does not write the row's send state.
ClientFailsSilently(i, message) ==
  /\ rowSendStates' = rowSendStates
  /\ attempts' = [attempts EXCEPT ![i].phase = "query", ![i].final = "failed",
                                  ![i].resp = NoResp, ![i].thrown = TRUE]

\* The catch block of sendEmailForRow followed by the start of the finally
\* block: the row is marked failed (a functional update of the current
\* rowSendStates) and the audit query is issued.
ClientFails(i, message) ==
  /\ rowSendStates' = setRowSendState(rowSendStates, getRowId(attempts[i].row), "failed", message)
  /\ attempts' = [attempts EXCEPT ![i].phase = "query", ![i].final = "failed",
                                  ![i].resp = NoResp, ![i].thrown = TRUE]

\* pdfEntry.async or toBase64 rejected.
ExtractThrows(i) ==
  /\ InPhase(i, "sending")
  /\ ClientFails(i, "Failed to encode PDF.")
  /\ UNCHANGED << rows, selectedRowIds, skipAlreadySent, lastLogStatusByKey,
                  summary, isParsingZip, isMutating, isSendingAll, actionError,
                  addContactState, zipRef, parsing, mutation, bulk, send_logs, nStarted, nUploads, sentEarlier, call >>

\* The send endpoint handles the request; outcomes and inserts are what the
\* collaborators may do in the specification at hand.
ServerPOST(i, outcomes, inserts) ==
  /\ InPhase(i, "sending")
  /\ \E outcome \in outcomes, ins \in inserts :
       LET r == POST(send_logs, now, Request(i), outcome, ins) IN
       /\ (outcome \notin LoggedOutcomes => ins = "ok")
       /\ send_logs' = r.logs
       /\ attempts' = [attempts EXCEPT ![i].phase = "responded",
                                       ![i].outcome = outcome,
                                       ![i].ins = IF outcome \in LoggedOutcomes THEN ins ELSE "none",
                                       ![i].resp = r.resp,
                                       ![i].logged_at =
                                          IF r.logs /= send_logs THEN now ELSE 0]
  /\ UNCHANGED << rows, rowSendStates, selectedRowIds, skipAlreadySent, lastLogStatusByKey,
                  summary, isParsingZip, isMutating, isSendingAll, actionError,
                  addContactState, zipRef, parsing, mutation, bulk, nStarted, nUploads, sentEarlier, call >>

\* fetch rejects (the request or its response is lost).
FetchThrows(i) ==
  /\ InPhase(i, "sending") \/ InPhase(i, "responded")
  /\ ClientFails(i, "Failed to fetch")
  /\ UNCHANGED << rows, selectedRowIds, skipAlreadySent, lastLogStatusByKey,
                  summary, isParsingZip, isMutating, isSendingAll, actionError,
                  addContactState, zipRef, parsing, mutation, bulk, send_logs, nStarted, nUploads, sentEarlier, call >>

\* The row state sendEmailForRow derives from a response.
StateFromResponse(resp) ==
  IF resp.status \notin {200} \/ ~resp.ok
  THEN [send_state |-> "failed",
        send_error |-> IF resp.error /= Null THEN resp.error ELSE "Failed to send email."]
  ELSE [send_state |-> "sent", send_error |-> Null]

\* Variant: the row is settled without an audit query.
ClientResponseNoQuery(i) ==
  /\ InPhase(i, "responded")
  /\ LET st == StateFromResponse(attempts[i].resp) IN
       /\ rowSendStates' = setRowSendState(rowSendStates, getRowId(attempts[i].row),
                                           st.send_state, st.send_error)
       /\ attempts' = [attempts EXCEPT ![i].phase = "queried", ![i].final = st.send_state,
                                       ![i].resp = NoResp]
  /\ UNCHANGED << rows, selectedRowIds, skipAlreadySent, lastLogStatusByKey,
                  summary, isParsingZip, isMutating, isSendingAll, actionError,
                  addContactState, zipRef, parsing, mutation, bulk, send_logs, nStarted, nUploads, sentEarlier, call >>

\* The response arrives: the row becomes sent or failed and the finally
\* block issues the audit query.
ClientResponse(i) ==
  /\ InPhase(i, "responded")
  /\ LET st == StateFromResponse(attempts[i].resp) IN
       /\ rowSendStates' = setRowSendState(rowSendStates, getRowId(attempts[i].row),
                                           st.send_state, st.send_error)
       /\ attempts' = [attempts EXCEPT ![i].phase = "query", ![i].final = st.send_state,
                                       ![i].resp = NoResp]
  /\ UNCHANGED << rows, selectedRowIds, skipAlreadySent, lastLogStatusByKey,
                  summary, isParsingZip, isMutating, isSendingAll, actionError,
                  addContactState, zipRef, parsing, mutation, bulk, send_logs, nStarted, nUploads, sentEarlier, call >>

\* refreshLastLogStatusForKeys([row.account_key]): the server action reads
\* the log.
QueryServe(i, qoks) ==
  /\ InPhase(i, "query")
  /\ \E qok \in qoks :
       LET key == attempts[i].row.account_key
           latest == getLastSendStatusForZip(send_logs, attempts[i].zip, {key}, qok)
       IN attempts' = [attempts EXCEPT
            ![i].phase = "queried",
            ![i].q = IF key \in DOMAIN latest
                     THEN [ok |-> qok, present |-> TRUE, status |-> latest[key].status,
                           sent_at |-> latest[key].sent_at]
                     ELSE [NoQ EXCEPT !.ok = qok]]
  /\ UNCHANGED << rows, rowSendStates, selectedRowIds, skipAlreadySent, lastLogStatusByKey,
                  summary, isParsingZip, isMutating, isSendingAll, actionError,
                  addContactState, zipRef, parsing, mutation, bulk, send_logs, nStarted, nUploads, sentEarlier, call >>

\* Variant: the bulk loop is left without its finally block.
QueryThrowsNoFinally(i) ==
  /\ InPhase(i, "query")
  /\ attempts' = RemoveAt(attempts, i)
  /\ IF attempts[i].bulk
     THEN bulk' = NoBulk /\ UNCHANGED isSendingAll
     ELSE UNCHANGED << bulk, isSendingAll >>
  /\ UNCHANGED << rows, rowSendStates, selectedRowIds, skipAlreadySent, lastLogStatusByKey,
                  summary, isParsingZip, isMutating, actionError,
                  addContactState, zipRef, parsing, mutation, send_logs, nStarted, nUploads, sentEarlier, call >>

\* The server action call rejects: sendEmailForRow rejects out of its
\* finally block; a bulk loop is left through its own finally block.
QueryThrows(i) ==
  /\ InPhase(i, "query")
  /\ attempts' = RemoveAt(attempts, i)
  /\ IF attempts[i].bulk
     THEN bulk' = NoBulk /\ isSendingAll' = FALSE
     ELSE UNCHANGED << bulk, isSendingAll >>
  /\ UNCHANGED << rows, rowSendStates, selectedRowIds, skipAlreadySent, lastLogStatusByKey,
                  summary, isParsingZip, isMutating, actionError,
                  addContactState, zipRef, parsing, mutation, send_logs, nStarted, nUploads, sentEarlier, call >>

\* setLastLogStatusByKey(current => ...) for the refreshed key.
MergeLastStatus(current, key, q) ==
  [ k \in IF q.present THEN (DOMAIN current) \cup {key} ELSE (DOMAIN current) \ {key} |->
      IF k = key THEN q.status ELSE current[k] ]

\* The audit query returned: the cache is updated, sendEmailForRow returns
\* and, in a bulk run, the loop calls sendEmailForRow for the next row.
ApplyRefresh(i) ==
  /\ InPhase(i, "queried")
  /\ lastLogStatusByKey' =
       MergeLastStatus(lastLogStatusByKey, attempts[i].row.account_key, attempts[i].q)
  /\ LET atts == RemoveAt(attempts, i) IN
       IF attempts[i].bulk
       THEN Advance(atts, bulk.queue, bulk.snap, bulk.zip, bulk.mode, actionError)
       ELSE /\ attempts' = atts
            /\ UNCHANGED << rowSendStates, actionError, bulk, isSendingAll, nStarted >>
  /\ UNCHANGED << rows, selectedRowIds, skipAlreadySent, summary, isParsingZip,
                  isMutating, addContactState, zipRef, parsing, mutation, send_logs,
                  nUploads, sentEarlier, call >>

\* ------------------------------------------------------------- bulk modes
\* Variant: the audit cache is not consulted.
shouldSkipRowNever(row) == FALSE

shouldSkipRowBecauseSentEarlier(row) ==
  IF ~skipAlreadySent THEN FALSE
  ELSE LastStatus(lastLogStatusByKey, row.account_key) = "sent"

ReviewStatusOf(row) ==
  getReviewStatus(row, RowState(rowSendStates, getRowId(row)),
                  LastStatus(lastLogStatusByKey, row.account_key))

CountReview(st) == Cardinality({ i \in 1..Len(rows) : ReviewStatusOf(rows[i]) = st })

selectedPendingCount ==
  Cardinality({ i \in 1..Len(rows) :
                  getRowId(rows[i]) \in selectedRowIds /\ rows[i].status = "Pending" })

BulkEnabled == Len(rows) > 0 /\ zipFilename /= "" /\ UiIdle

\* Variant: the filter of "Send pending" without its status test.
SendPendingFilterNoStatus(row) ==
  /\ ~shouldSkipRowBecauseSentEarlier(row)
  /\ RowState(rowSendStates, getRowId(row)).send_state /= "sent"

SendPendingFilter(row) ==
  /\ row.status = "Pending"
  /\ ~shouldSkipRowBecauseSentEarlier(row)
  /\ RowState(rowSendStates, getRowId(row)).send_state /= "sent"

SendSelectedFilter(row) ==
  /\ getRowId(row) \in selectedRowIds
  /\ row.status = "Pending"
  /\ ~shouldSkipRowBecauseSentEarlier(row)
  /\ RowState(rowSendStates, getRowId(row)).send_state /= "sent"

RetryFailedFilter(row) ==
  /\ row.status = "Pending"
  /\ LastStatus(lastLogStatusByKey, row.account_key) = "failed"
  /\ RowState(rowSendStates, getRowId(row)).send_state /= "sent"

BulkFrame ==
  UNCHANGED << rows, selectedRowIds, skipAlreadySent, lastLogStatusByKey, summary,
               isParsingZip, isMutating, addContactState, zipRef, parsing, mutation,
               send_logs, nUploads, sentEarlier, call >>

\* Click on "Send pending" (rendered while counts.Pending > 0).
sendPending ==
  /\ CountReview("Pending") > 0
  /\ BulkEnabled
  /\ Advance(attempts, SelectSeq(rows, SendPendingFilter), rowSendStates, zipFilename,
             "pending", "")
  /\ BulkFrame

\* Click on "Send selected" (rendered while selectedPendingCount > 0).
sendSelectedPendingRows ==
  /\ selectedPendingCount > 0
  /\ BulkEnabled
  /\ LET rowsToSend == SelectSeq(rows, SendSelectedFilter) IN
       IF rowsToSend = <<>>
       THEN /\ actionError' = "No eligible selected rows to send."
            /\ UNCHANGED << rowSendStates, attempts, bulk, isSendingAll, nStarted >>
       ELSE Advance(attempts, rowsToSend, rowSendStates, zipFilename, "selected", "")
  /\ BulkFrame

\* Click on "Retry failed" (rendered while counts.Failed > 0).
retryAllFailed ==
  /\ CountReview("Failed") > 0
  /\ BulkEnabled
  /\ LET rowsToRetry == SelectSeq(rows, RetryFailedFilter) IN
       IF rowsToRetry = <<>>
       THEN /\ actionError' = "No failed rows to retry."
            /\ UNCHANGED << rowSendStates, attempts, bulk, isSendingAll, nStarted >>
       ELSE Advance(attempts, rowsToRetry, rowSendStates, zipFilename, "failed", "")
  /\ BulkFrame

\* ------------------------------------------------- selection and toggle
SelectFrame ==
  UNCHANGED << rows, rowSendStates, skipAlreadySent, lastLogStatusByKey, summary,
               isParsingZip, isMutating, isSendingAll, actionError, addContactState,
               zipRef, parsing, mutation, bulk, attempts, send_logs, nStarted, nUploads, sentEarlier, call >>

\* Variant: the checkbox of a Blocked row is not disabled.
setRowSelectedAnyStatus(i, selected) ==
  /\ i \in 1..Len(rows)
  /\ UiIdle
  /\ selectedRowIds' = IF selected THEN selectedRowIds \cup {getRowId(rows[i])}
                       ELSE selectedRowIds \ {getRowId(rows[i])}
  /\ selectedRowIds' /= selectedRowIds
  /\ SelectFrame

\* The row checkbox (disabled for Blocked rows and while parsing, mutating
\* or a bulk run).
setRowSelected(i, selected) ==
  /\ i \in 1..Len(rows)
  /\ rows[i].status /= "Blocked"
  /\ UiIdle
  /\ selectedRowIds' = IF selected THEN selectedRowIds \cup {getRowId(rows[i])}
                       ELSE selectedRowIds \ {getRowId(rows[i])}
  /\ selectedRowIds' /= selectedRowIds
  /\ SelectFrame

\* The header checkbox over the visible pending rows (filter All, no search).
setAllVisiblePendingRowsSelected(selected) ==
  LET visibleIds == { getRowId(rows[i]) : i \in { j \in 1..Len(rows) : rows[j].status = "Pending" } }
  IN /\ visibleIds /= {}
     /\ UiIdle
     /\ selectedRowIds' = IF selected THEN selectedRowIds \cup visibleIds
                          ELSE selectedRowIds \ visibleIds
     /\ selectedRowIds' /= selectedRowIds
     /\ SelectFrame

\* The "Skip already sent" checkbox.
setSkipAlreadySent ==
  /\ Len(rows) > 0
  /\ UiIdle
  /\ skipAlreadySent' = ~skipAlreadySent
  /\ UNCHANGED << rows, rowSendStates, selectedRowIds, lastLogStatusByKey, summary,
                  isParsingZip, isMutating, isSendingAll, actionError, addContactState,
                  zipRef, parsing, mutation, bulk, attempts, send_logs, nStarted, nUploads, sentEarlier, call >>

\* ------------------------------------------------------------ add contact
\* "Add contact" on a Blocked row.
openAddContact(i) ==
  /\ i \in 1..Len(rows)
  /\ rows[i].status = "Blocked"
  /\ UiIdle
  /\ actionError' = ""
  /\ addContactState' = rows[i].account_key
  /\ UNCHANGED << rows, rowSendStates, selectedRowIds, skipAlreadySent, lastLogStatusByKey,
                  summary, isParsingZip, isMutating, isSendingAll, zipRef, parsing,
                  mutation, bulk, attempts, send_logs, nStarted, nUploads, sentEarlier, call >>

\* "Cancel" on the form (disabled while isParsingZip || isMutating).
closeAddContact ==
  /\ addContactState /= Null
  /\ ~isParsingZip /\ ~isMutating
  /\ addContactState' = Null
  /\ UNCHANGED << rows, rowSendStates, selectedRowIds, skipAlreadySent, lastLogStatusByKey,
                  summary, isParsingZip, isMutating, isSendingAll, actionError, zipRef,
                  parsing, mutation, bulk, attempts, send_logs, nStarted, nUploads,
                  sentEarlier, call >>

\* "Save Contact" (disabled while isParsingZip || isMutating): the
\* transition starts and createContact is called.
submitAddContact ==
  /\ addContactState /= Null
  /\ ~isParsingZip /\ ~isMutating
  /\ actionError' = ""
  /\ isMutating' = TRUE
  /\ mutation' = [key |-> addContactState, phase |-> "create", zip |-> zipFilename]
  /\ UNCHANGED << rows, rowSendStates, selectedRowIds, skipAlreadySent, lastLogStatusByKey,
                  summary, isParsingZip, isSendingAll, addContactState, zipRef, parsing,
                  bulk, attempts, send_logs, nStarted, nUploads, sentEarlier, call >>

\* createContact answered ok = false: the form shows the error.
createContactFails ==
  /\ mutation.phase = "create"
  /\ mutation' = NoMutation
  /\ isMutating' = FALSE
  /\ UNCHANGED << rows, rowSendStates, selectedRowIds, skipAlreadySent, lastLogStatusByKey,
                  summary, isParsingZip, isSendingAll, actionError, addContactState,
                  zipRef, parsing, bulk, attempts, send_logs, nStarted, nUploads, sentEarlier, call >>

\* Variant: every row is recomputed from the store's answer.
SyncRowsEveryRow(currentRows, keySet, contactsByKey) ==
  [ i \in 1..Len(currentRows) |->
      LET contactEmail == IF currentRows[i].account_key \in DOMAIN contactsByKey
                          THEN contactsByKey[currentRows[i].account_key] ELSE Null
      IN [currentRows[i] EXCEPT !.contact_email = contactEmail,
                                !.status = getStatusFromEmail(contactEmail)] ]

\* syncContactsForKeys([key]): the rows of the refreshed keys are recomputed
\* from the store's answer, the others are kept.
SyncRows(currentRows, keySet, contactsByKey) ==
  [ i \in 1..Len(currentRows) |->
      IF currentRows[i].account_key \notin keySet THEN currentRows[i]
      ELSE LET contactEmail == IF currentRows[i].account_key \in DOMAIN contactsByKey
                               THEN contactsByKey[currentRows[i].account_key] ELSE Null
           IN [currentRows[i] EXCEPT !.contact_email = contactEmail,
                                     !.status = getStatusFromEmail(contactEmail)] ]

syncContactsForKeys(stores) ==
  /\ mutation.phase = "create"
  /\ \E contactsByKey \in ContactResults(stores, {mutation.key}) :
       rows' = SyncRows(rows, {mutation.key}, contactsByKey)
  /\ selectedRowIds' = PruneSelection(selectedRowIds, rows')
  /\ mutation' = [mutation EXCEPT !.phase = "refresh"]
  /\ UNCHANGED << rowSendStates, skipAlreadySent, lastLogStatusByKey, summary,
                  isParsingZip, isMutating, isSendingAll, actionError, addContactState,
                  zipRef, parsing, bulk, attempts, send_logs, nStarted, nUploads, sentEarlier, call >>

\* refreshLastLogStatusForKeys([key]) of the transition, then the form is
\* closed and the transition ends.
refreshAfterContact(qoks) ==
  /\ mutation.phase = "refresh"
  /\ \E qok \in qoks :
       LET latest == getLastSendStatusForZip(send_logs, mutation.zip, {mutation.key}, qok)
           q == IF mutation.key \in DOMAIN latest
                THEN [ok |-> qok, present |-> TRUE, status |-> latest[mutation.key].status,
                      sent_at |-> latest[mutation.key].sent_at]
                ELSE NoQ
       IN lastLogStatusByKey' =
            IF mutation.zip = "" THEN EmptyMap
            ELSE MergeLastStatus(lastLogStatusByKey, mutation.key, q)
  /\ addContactState' = Null
  /\ mutation' = NoMutation
  /\ isMutating' = FALSE
  /\ UNCHANGED << rows, rowSendStates, selectedRowIds, skipAlreadySent, summary,
                  isParsingZip, isSendingAll, actionError, zipRef, parsing, bulk,
                  attempts, send_logs, nStarted, nUploads, sentEarlier, call >>

\* --------------------------------------------------------- specifications
\* Spec, the send session: one archive whose keys all have a contact, the
\* endpoint acknowledges or throws, the audit insert succeeds or fails, the
\* audit query answers.  The other branches of the endpoint and of the
\* client are covered by SpecEndpoint, contacts, selection and the other
\* bulk modes by SpecReview.
SessionOutcomes == {"ack", "threw"}
SessionInserts == {"ok", "error"}

Next ==
  \/ \E f \in {"a.zip"} : ParseStart(f)
  \/ ParseDone(AllPending, {TRUE})
  \/ \E i \in 1..Len(rows) : ClickSend(i)
  \/ \E i \in 1..MaxAttempts : ServerPOST(i, SessionOutcomes, SessionInserts)
  \/ \E i \in 1..MaxAttempts : ClientResponse(i)
  \/ \E i \in 1..MaxAttempts : QueryServe(i, {TRUE})
  \/ \E i \in 1..MaxAttempts : ApplyRefresh(i)
  \/ sendPending
  \/ setSkipAlreadySent

Spec == Init /\ [][Next]_vars

\* The send log as earlier page sessions may have left it: n entries for
\* archive a.zip, written by the endpoint at times 1..n.
PriorEntry(k, st, t) ==
  [ Entry([zip_filename |-> "a.zip", account_key |-> k, to_email |-> GoodEmail], st,
          IF st = "sent" THEN Null ELSE "Failed to send email.",
          IF st = "sent" THEN "msg" ELSE Null)
    EXCEPT !.sent_at = t ]

PriorLogs(n) ==
  { [ i \in 1..n |-> PriorEntry(f[i][1], f[i][2], i) ] :
      f \in [ 1..n -> Keys \X {"sent", "failed"} ] }

SentIn(logs) ==
  { << logs[i].zip_filename, logs[i].account_key >> :
      i \in { j \in 1..Len(logs) : logs[j].status = "sent" } }

\* SpecReview, the review table: a freshly loaded page after an earlier
\* upload in which K1 failed and was retried; contacts that are missing or
\* have an empty email, selection, the add-contact form and the three bulk
\* modes; the audit insert succeeds, the audit query at parse time may fail
\* and the call of the audit query after an attempt may reject.
ReviewStores ==
  { [ k \in Keys |-> IF k = "K1" THEN GoodEmail ELSE "" ],
    [ k \in Keys |-> GoodEmail ] }

InitReview ==
  /\ rows = <<>>
  /\ rowSendStates = EmptyMap
  /\ selectedRowIds = {}
  /\ skipAlreadySent = TRUE
  /\ lastLogStatusByKey = EmptyMap
  /\ summary = NoSummary
  /\ isParsingZip = FALSE
  /\ isMutating = FALSE
  /\ isSendingAll = FALSE
  /\ actionError = ""
  /\ addContactState = Null
  /\ zipRef = Null
  /\ parsing = NoParse
  /\ mutation = NoMutation
  /\ bulk = NoBulk
  /\ attempts = <<>>
  /\ send_logs \in { l \in PriorLogs(2) :
                       l[1].account_key = "K1" /\ l[1].status = "failed"
                       /\ l[2].account_key = "K1" }
  /\ nStarted = Len(send_logs)
  /\ nUploads = 1
  /\ sentEarlier = SentIn(send_logs)
  /\ call = NoCall

NextReview ==
  \/ \E f \in {"a.zip"} : ParseStart(f)
  \/ ParseDone(ReviewStores, BOOLEAN)
  \/ ParseFail
  \/ \E i \in 1..Len(rows) : ClickSend(i)
  \/ \E i \in 1..MaxAttempts : ServerPOST(i, SessionOutcomes, {"ok"})
  \/ \E i \in 1..MaxAttempts : ClientResponse(i)
  \/ \E i \in 1..MaxAttempts : QueryServe(i, {TRUE})
  \/ \E i \in 1..MaxAttempts : QueryThrows(i)
  \/ \E i \in 1..MaxAttempts : ApplyRefresh(i)
  \/ sendPending
  \/ sendSelectedPendingRows
  \/ retryAllFailed
  \/ \E i \in 1..Len(rows), selected \in BOOLEAN : setRowSelected(i, selected)
  \/ \E selected \in BOOLEAN : setAllVisiblePendingRowsSelected(selected)
  \/ setSkipAlreadySent
  \/ \E i \in 1..Len(rows) : openAddContact(i)
  \/ closeAddContact
  \/ submitAddContact
  \/ createContactFails
  \/ syncContactsForKeys(ReviewStores)
  \/ refreshAfterContact({TRUE})

SpecReview == InitReview /\ [][NextReview]_vars

\* SpecEndpoint, one request: a single-row send has just been started in a
\* session on a.zip, over a log that earlier sessions may have left; the
\* endpoint takes any of its branches, the audit insert succeeds, returns an
\* error or throws, and the client's awaits return or throw.  The log is a
\* shared table: the endpoint also serves requests of other page sessions
\* on the same archive.

\* The endpoint handles a request of another page session and logs it.
OtherSessionPOST ==
  /\ Len(send_logs) < MaxLog
  /\ \E k \in Keys, outcome \in SessionOutcomes :
       send_logs' = POST(send_logs, now,
                         [zip_filename |-> "a.zip", account_key |-> k, to_email |-> GoodEmail],
                         outcome, "ok").logs
  /\ UNCHANGED << rows, rowSendStates, selectedRowIds, skipAlreadySent, lastLogStatusByKey,
                  summary, isParsingZip, isMutating, isSendingAll, actionError,
                  addContactState, zipRef, parsing, mutation, bulk, attempts, nStarted,
                  nUploads, sentEarlier, call >>

InitEndpoint ==
  \E i \in 1..Len(ZipRows("a.zip")), n \in 0..MaxPrior :
    \E prior \in PriorLogs(n) :
      LET merged == mergeRowsWithContacts(ZipRows("a.zip"), [ k \in Keys |-> GoodEmail ]) IN
      /\ rows = merged
      /\ rowSendStates = setRowSendState(EmptyMap, getRowId(merged[i]), "sending", Null)
      /\ selectedRowIds = {}
      /\ skipAlreadySent = TRUE
      /\ lastLogStatusByKey = StatusOnly(getLastSendStatusForZip(prior, "a.zip", Keys, TRUE))
      /\ summary = [zipFilename |-> "a.zip"]
      /\ isParsingZip = FALSE
      /\ isMutating = FALSE
      /\ isSendingAll = FALSE
      /\ actionError = ""
      /\ addContactState = Null
      /\ zipRef = "a.zip"
      /\ parsing = NoParse
      /\ mutation = NoMutation
      /\ bulk = NoBulk
      /\ attempts = << [row |-> merged[i], zip |-> "a.zip", bulk |-> FALSE,
                        phase |-> "sending", started |-> Len(prior) + 1, upload |-> 1,
                        entry |-> findPdfEntry("a.zip", merged[i]),
                        outcome |-> "none", ins |-> "none", resp |-> NoResp,
                        logged_at |-> 0, final |-> "none", thrown |-> FALSE,
                        q |-> NoQ] >>
      /\ send_logs = prior
      /\ nStarted = Len(prior) + 1
      /\ nUploads = 1
      /\ sentEarlier = SentIn(prior)
      /\ call = NoCall

NextEndpoint ==
  \/ \E i \in 1..MaxAttempts : ExtractThrows(i)
  \/ \E i \in 1..MaxAttempts : ServerPOST(i, PostOutcomes, InsertOutcomes)
  \/ OtherSessionPOST
  \/ \E i \in 1..MaxAttempts : FetchThrows(i)
  \/ \E i \in 1..MaxAttempts : ClientResponse(i)
  \/ \E i \in 1..MaxAttempts : QueryServe(i, BOOLEAN)
  \/ \E i \in 1..MaxAttempts : QueryThrows(i)
  \/ \E i \in 1..MaxAttempts : ApplyRefresh(i)

SpecEndpoint == InitEndpoint /\ [][NextEndpoint]_vars

\* SpecQuery, the audit query on its own: a log of entries for two archives
\* and two keys, a set of requested keys, and the matching entries in an
\* order in which the store may yield them.
page == << rows, rowSendStates, selectedRowIds, skipAlreadySent, lastLogStatusByKey,
           summary, isParsingZip, isMutating, isSendingAll, actionError,
           addContactState, zipRef, parsing, mutation, bulk, attempts, send_logs,
           nStarted, nUploads, sentEarlier >>

QueryLogs(n) ==
  { [ i \in 1..n |->
        [ Entry([zip_filename |-> f[i][1], account_key |-> f[i][2], to_email |-> GoodEmail],
                f[i][3], Null, Null)
          EXCEPT !.sent_at = i ] ] :
      f \in [ 1..n -> ZipNames \X Keys \X {"sent", "failed"} ] }

\* .eq("zip_filename", zipFilename).in("account_key", normalizedKeys)
Matching(logs, zip, keys) ==
  SelectSeq(logs, LAMBDA e : e.zip_filename = zip /\ e.account_key \in keys)

\* getLastSendStatusForZip from the point where the store has answered with
\* data.
getLastSendStatusOfData(data, zip_filename, accountKeys) ==
  IF normalizeZipFilename(zip_filename) = "" \/ accountKeys = {} THEN EmptyMap
  ELSE ReduceLast(data, EmptyMap)

InitQuery ==
  /\ FreshPage
  /\ \E n \in 0..MaxLog : \E logs \in QueryLogs(n), keys \in SUBSET Keys :
       \E p \in Permutations(1..Len(Matching(logs, "a.zip", keys))) :
         LET m == Matching(logs, "a.zip", keys) IN
         call = [of |-> "none",
                 arg |-> [logs |-> logs, zip |-> "a.zip", keys |-> keys,
                          data |-> [ i \in 1..Len(m) |-> m[p[i]] ]],
                 res |-> Null]

CallGetLastSendStatusForZip ==
  /\ call.of = "none"
  /\ call' = [call EXCEPT
       !.of = "getLastSendStatusForZip",
       !.res = getLastSendStatusOfData(call.arg.data, call.arg.zip, call.arg.keys)]
  /\ UNCHANGED page

SpecQuery == InitQuery /\ [][CallGetLastSendStatusForZip]_vars

\* SpecSanitize, the catch block of the endpoint on its own: the transport
\* throws with a message of length up to MaxMsgLen.
\* "#" stands for a character that an address may hold and that is outside
\* the classes of the pattern and of \w, such as a letter that is not ASCII.
RECURSIVE Strings(_)
Strings(n) ==
  IF n = 0 THEN {""} ELSE { c \o str : c \in {"a", "B", "1", "_", "#", "@", ".", " "}, str \in Strings(n - 1) }

InitSanitize ==
  /\ FreshPage
  /\ \E n \in 0..MaxMsgLen : \E message \in Strings(n) :
       call = [of |-> "none", arg |-> message, res |-> Null]

CallPOSTCatch ==
  /\ call.of = "none"
  /\ call' = [call EXCEPT
       !.of = "POST",
       !.res = POSTCatch(<<>>, 1,
                 [zip_filename |-> "a.zip", account_key |-> "K1", to_email |-> GoodEmail],
                 CatchMessage(call.arg), "ok")]
  /\ UNCHANGED page

SpecSanitize == InitSanitize /\ [][CallPOSTCatch]_vars

\* SpecAuth, the three server entry points called by any caller: a caller
\* has or lacks a session (claims), a user record, an email and a profile
\* role; the allow list of the deployment holds one address.
AdminAllowlist == {"boss@x.io"}
Callers ==
  [claims : BOOLEAN, user : BOOLEAN,
   email : {Null, "boss@x.io", "Boss@X.io ", "eve@x.io"},
   role : {Null, "admin", "Admin", "member"}]

isAdminEmail(email) ==
  IF email = Null \/ email = "" THEN FALSE ELSE toLowerCase(trim(email)) \in AdminAllowlist

isAdminRole(role) == toLowerCase(IF role = Null THEN "" ELSE role) = "admin"

hasAdminAccess(email, role) == isAdminEmail(email) \/ isAdminRole(role)

\* Variant: every caller with a session counts as an admin.
isAdminSessionAnySession(caller) == caller.claims

\* isAdminSession of the server actions: getProfileForAuthUser yields a null
\* role when there is no user.
isAdminSession(caller) ==
  IF ~caller.claims THEN FALSE
  ELSE hasAdminAccess(IF caller.user THEN caller.email ELSE Null,
                      IF caller.user THEN caller.role ELSE Null)

\* The three checks at the head of POST.
POSTAuthorized(caller) ==
  caller.claims /\ caller.user /\ hasAdminAccess(caller.email, caller.role)

POSTAs(caller, logs, at, req, outcome, ins) ==
  POST(logs, at, req, IF POSTAuthorized(caller) THEN outcome ELSE "unauthorized", ins)

getContactsByKeys(caller, store, accountKeys, storeOk) ==
  IF ~isAdminSession(caller) THEN EmptyMap
  ELSE IF accountKeys = {} THEN EmptyMap
  ELSE IF ~storeOk THEN EmptyMap
  ELSE Restrict(store, accountKeys)

getLastSendStatusForZipAs(caller, logs, zip_filename, accountKeys, storeOk) ==
  getLastSendStatusForZip(logs, zip_filename, accountKeys, isAdminSession(caller) /\ storeOk)

InitAuth ==
  /\ FreshPage
  /\ \E caller \in Callers, n \in 0..MaxPrior : \E logs \in PriorLogs(n) :
       call = [of |-> "none", arg |-> [caller |-> caller, logs |-> logs], res |-> Null]

CallPOST ==
  /\ call.of = "none"
  /\ \E outcome \in PostOutcomes \ {"unauthorized"} :
       call' = [call EXCEPT
         !.of = "POST",
         !.res = POSTAs(call.arg.caller, call.arg.logs, Len(call.arg.logs) + 1,
                        [zip_filename |-> "a.zip", account_key |-> "K1",
                         to_email |-> GoodEmail],
                        outcome, "ok")]
  /\ UNCHANGED page

CallGetContactsByKeys ==
  /\ call.of = "none"
  /\ \E store \in AllPending :
       call' = [call EXCEPT
         !.of = "getContactsByKeys",
         !.res = getContactsByKeys(call.arg.caller, store, Keys, TRUE)]
  /\ UNCHANGED page

CallGetLastSendStatusForZipAs ==
  /\ call.of = "none"
  /\ call' = [call EXCEPT
       !.of = "getLastSendStatusForZipAs",
       !.res = getLastSendStatusForZipAs(call.arg.caller, call.arg.logs, "a.zip", Keys, TRUE)]
  /\ UNCHANGED page

NextAuth ==
  \/ CallPOST
  \/ CallGetContactsByKeys
  \/ CallGetLastSendStatusForZipAs

SpecAuth == InitAuth /\ [][NextAuth]_vars

\* SpecParse, the archive parser on its own: parseUploadedZip from the decoded
\* archive to parsedRows, source and parseMessages.
normalizeAccountKey(value) == IF value = Null THEN "" ELSE trim(value)

isPdf(filename) == endsWith(toLowerCase(filename), ".pdf")

\* Variant: only the first reserved prefix is excluded.
isIgnoredAdminPdfBillOnly(filename) ==
  startsWith(getBaseName(filename), "Bill_Admin_")

isIgnoredAdminPdf(filename) ==
  \/ startsWith(getBaseName(filename), "Bill_Admin_")
  \/ startsWith(getBaseName(filename), "Summary_Admin_Closing_Adjustment_")

ParsedBillRow(k, f, p, d) ==
  [account_key |-> k, pdf_filename |-> f, zip_entry_path |-> p, trade_date |-> d]

\* Variant: the key of an entry is taken as written.
ManifestRowsRawKey(item, tradeDate) ==
  IF ~item.object THEN <<>>
  ELSE LET accountKey == IF item.key = Null THEN "" ELSE item.key
           pdfPath == trim(IF item.pdf = Null THEN "" ELSE item.pdf)
       IN IF accountKey = "" \/ pdfPath = "" THEN <<>>
          ELSE IF ~isPdf(pdfPath) \/ isIgnoredAdminPdf(pdfPath) THEN <<>>
          ELSE << ParsedBillRow(accountKey, getBaseName(pdfPath), pdfPath, tradeDate) >>

\* The callback of manifestSuccess.flatMap: the rows of one item.
ManifestRows(item, tradeDate) ==
  IF ~item.object THEN <<>>
  ELSE LET accountKey == normalizeAccountKey(item.key)
           pdfPath == trim(IF item.pdf = Null THEN "" ELSE item.pdf)
       IN IF accountKey = "" \/ pdfPath = "" THEN <<>>
          ELSE IF ~isPdf(pdfPath) \/ isIgnoredAdminPdf(pdfPath) THEN <<>>
          ELSE << ParsedBillRow(accountKey, getBaseName(pdfPath), pdfPath, tradeDate) >>

RECURSIVE FlatMapManifest(_, _)
FlatMapManifest(success, tradeDate) ==
  IF success = <<>> THEN <<>>
  ELSE ManifestRows(Head(success), tradeDate) \o FlatMapManifest(Tail(success), tradeDate)

\* Variant: the trade date is taken as written.
FallbackRowsRawDate(file) ==
  LET baseName == getBaseName(file.name)
      withoutPrefix == SubSeq(baseName, 6, Len(baseName))
      firstUnderscoreIndex == IndexOf(withoutPrefix, "_", 1) - 1
      accountKey == normalizeAccountKey(SubSeq(withoutPrefix, 1, firstUnderscoreIndex))
      tradeDateValue == SubSeq(withoutPrefix, firstUnderscoreIndex + 2, Len(withoutPrefix) - 4)
  IN IF file.dir THEN <<>>
     ELSE IF ~startsWith(baseName, "Bill_") THEN <<>>
     ELSE IF ~isPdf(baseName) \/ isIgnoredAdminPdf(baseName) THEN <<>>
     ELSE IF firstUnderscoreIndex <= 0 THEN <<>>
     ELSE IF accountKey = "" THEN <<>>
     ELSE << ParsedBillRow(accountKey, baseName, file.name,
                           IF tradeDateValue = "" THEN Null ELSE tradeDateValue) >>

\* The body of the loop of parseFallbackRows: the rows pushed for one file
\* (firstUnderscoreIndex is the 0-based index of the code).
FallbackRows(file) ==
  LET baseName == getBaseName(file.name)
      withoutPrefix == SubSeq(baseName, 6, Len(baseName))
      firstUnderscoreIndex == IndexOf(withoutPrefix, "_", 1) - 1
      accountKey == normalizeAccountKey(SubSeq(withoutPrefix, 1, firstUnderscoreIndex))
      tradeDateValue == SubSeq(withoutPrefix, firstUnderscoreIndex + 2, Len(withoutPrefix) - 4)
  IN IF file.dir THEN <<>>
     ELSE IF ~startsWith(baseName, "Bill_") THEN <<>>
     ELSE IF ~isPdf(baseName) \/ isIgnoredAdminPdf(baseName) THEN <<>>
     ELSE IF firstUnderscoreIndex <= 0 THEN <<>>
     ELSE IF accountKey = "" THEN <<>>
     ELSE << ParsedBillRow(accountKey, baseName, file.name,
                           IF trim(tradeDateValue) = "" THEN Null ELSE trim(tradeDateValue)) >>

RECURSIVE parseFallbackRows(_)
parseFallbackRows(files) ==
  IF files = <<>> THEN <<>>
  ELSE FallbackRows(Head(files)) \o parseFallbackRows(Tail(files))

\* The manifest of an archive: absent, not JSON, JSON null (reading a
\* property of it throws inside the try block), or a JSON object.
ParseRows(archive) ==
  LET m == archive.manifest
      tradeDate == IF m.trade_date /= Null /\ trim(m.trade_date) /= ""
                   THEN trim(m.trade_date) ELSE Null
      manifestSuccess == IF m.isArray THEN m.success ELSE <<>>
      source == IF m.kind \in {"object", "null"} THEN "manifest" ELSE "fallback"
      parsedRows == IF m.kind = "object" THEN FlatMapManifest(manifestSuccess, tradeDate)
                    ELSE IF m.kind = "null" THEN <<>>
                    ELSE parseFallbackRows(archive.files)
      parseMessages ==
        (IF m.kind \in {"invalid", "null"} THEN << "manifest.json invalid JSON" >> ELSE <<>>)
        \o (IF parsedRows = <<>> THEN << "No bill PDFs found" >> ELSE <<>>)
  IN [source |-> source, parsedRows |-> parsedRows, messages |-> parseMessages]

MaxEntries == 2

ManifestItems ==
  { [object |-> FALSE, key |-> Null, pdf |-> Null] }
  \cup [object : {TRUE},
        key : {Null, "K1", " K2 ", " "},
        pdf : {Null, "out/Bill_K1_d1.pdf", " Bill_K2_d1.PDF ", "Bill_Admin_d1.pdf",
               "out/Summary_Admin_Closing_Adjustment_d1.pdf", "K1.txt", " "}]

NoManifest(kind) ==
  [kind |-> kind, trade_date |-> Null, isArray |-> FALSE, success |-> <<>>]

RECURSIVE SeqsOf(_, _)
SeqsOf(S, n) ==
  IF n = 0 THEN { <<>> } ELSE { <<x>> \o q : x \in S, q \in SeqsOf(S, n - 1) }

Manifests ==
  { NoManifest("object") }
  \cup { [kind |-> "object", trade_date |-> d, isArray |-> TRUE, success |-> q] :
           d \in {Null, " d1 ", " "}, q \in UNION { SeqsOf(ManifestItems, n) : n \in 0..MaxEntries } }

\* Entries of an archive: the name of a directory ends with a slash.
FileNames ==
  {"Bill_K1_d1.pdf", "out/Bill_K2_ d2 .pdf", "Bill_ K1 _.pdf", "Bill__d1.pdf",
   "Bill_ _d1.pdf", "Bill_Admin_d1.pdf", "Summary_Admin_Closing_Adjustment_d1.pdf",
   "Bill_K1.pdf", "Bill_K2_d1.PDF", "Bill_K1_d1_x.pdf", "Bill_K1_d1.txt", "notes.pdf",
   "out/"}
ZipFile(name) == [name |-> name, dir |-> endsWith(name, "/")]
FileLists ==
  { q \in UNION { SeqsOf({ ZipFile(x) : x \in FileNames }, n) : n \in 0..MaxEntries } :
      \A i, j \in 1..Len(q) : q[i] = q[j] => i = j }

Archives ==
  { [manifest |-> m, files |-> <<>>] : m \in Manifests }
  \cup [manifest : { NoManifest(k) : k \in {"absent", "invalid", "null"} }, files : FileLists]

InitParse ==
  /\ FreshPage
  /\ \E archive \in Archives : call = [of |-> "none", arg |-> archive, res |-> Null]

CallParseRows ==
  /\ call.of = "none"
  /\ call' = [call EXCEPT !.of = "parseUploadedZip", !.res = ParseRows(call.arg)]
  /\ UNCHANGED page

SpecParse == InitParse /\ [][CallParseRows]_vars

\* SpecSendRow, sendEmailForRow called for any row of the table, whatever
\* the buttons allow: the page after the parse of an archive whose file
\* name may be blank, with contacts that are missing or have an empty email.
InitSendRow ==
  /\ \E f \in ZipNames, contactsByKey \in ContactResults(ReviewStores, Keys) :
       \E name \in {f, " "} :
         /\ rows = mergeRowsWithContacts(ZipRows(f), contactsByKey)
         /\ summary = [zipFilename |-> name]
         /\ zipRef = f
  /\ rowSendStates = EmptyMap
  /\ selectedRowIds = {}
  /\ skipAlreadySent = TRUE
  /\ lastLogStatusByKey = EmptyMap
  /\ isParsingZip = FALSE
  /\ isMutating = FALSE
  /\ isSendingAll = FALSE
  /\ actionError = ""
  /\ addContactState = Null
  /\ parsing = NoParse
  /\ mutation = NoMutation
  /\ bulk = NoBulk
  /\ attempts = <<>>
  /\ send_logs = <<>>
  /\ nStarted = 0
  /\ nUploads = 1
  /\ sentEarlier = {}
  /\ call = NoCall

CallSendEmailForRow(i) ==
  /\ i \in 1..Len(rows)
  /\ nStarted < MaxCallAttempts
  /\ Advance(attempts, << rows[i] >>, rowSendStates, zipFilename, "single", actionError)
  /\ UNCHANGED << rows, selectedRowIds, skipAlreadySent, lastLogStatusByKey, summary,
                  isParsingZip, isMutating, addContactState, zipRef, parsing, mutation,
                  send_logs, nUploads, sentEarlier, call >>

NextSendRow ==
  \/ \E i \in 1..Len(rows) : CallSendEmailForRow(i)
  \/ \E i \in 1..MaxAttempts : ServerPOST(i, SessionOutcomes, {"ok"})
  \/ \E i \in 1..MaxAttempts : ClientResponse(i)
  \/ \E i \in 1..MaxAttempts : QueryServe(i, {TRUE})
  \/ \E i \in 1..MaxAttempts : ApplyRefresh(i)

SpecSendRow == InitSendRow /\ [][NextSendRow]_vars

\* SpecSendFair, the awaits of sendEmailForRow with every outcome: the page
\* of SpecSendRow with a file name and a contact email for every row; the extraction of the PDF, the request and the audit
\* query each return or throw, the endpoint takes any of its branches; the
\* function is called again when the previous call has returned.
\* Fairness: an await that is pending is eventually settled (the promise
\* resolves or rejects).
NextSendFair ==
  \/ \E i \in 1..Len(rows) : attempts = << >> /\ CallSendEmailForRow(i)
  \/ \E i \in 1..MaxAttempts : ExtractThrows(i)
  \/ \E i \in 1..MaxAttempts : ServerPOST(i, PostOutcomes, InsertOutcomes)
  \/ \E i \in 1..MaxAttempts : FetchThrows(i)
  \/ \E i \in 1..MaxAttempts : ClientResponse(i)
  \/ \E i \in 1..MaxAttempts : QueryServe(i, BOOLEAN)
  \/ \E i \in 1..MaxAttempts : QueryThrows(i)
  \/ \E i \in 1..MaxAttempts : ApplyRefresh(i)

RequestSettles ==
  \E i \in 1..MaxAttempts :
    ExtractThrows(i) \/ ServerPOST(i, PostOutcomes, InsertOutcomes) \/ FetchThrows(i)

ResponseSettles ==
  \E i \in 1..MaxAttempts : ClientResponse(i) \/ FetchThrows(i)

InitSendFair ==
  /\ InitSendRow
  /\ zipFilename /= ""
  /\ \A i \in 1..Len(rows) : rows[i].status = "Pending"

SpecSendFair ==
  /\ InitSendFair
  /\ [][NextSendFair]_vars
  /\ WF_vars(RequestSettles)
  /\ WF_vars(ResponseSettles)

\* SpecBulk, the bulk modes on one upload: the page after the parse of
\* a.zip over a log that earlier sessions may have written to, with contacts
\* that are missing or have an empty email; the three bulk buttons, the row
\* buttons, the selection and the skip toggle; the audit insert succeeds and
\* the call of the audit query after an attempt may reject.
InitBulk ==
  /\ \E contactsByKey \in ContactResults(ReviewStores, Keys), n \in 1..MaxPrior :
       \E logs \in PriorLogs(n) :
         /\ rows = mergeRowsWithContacts(ZipRows("a.zip"), contactsByKey)
         /\ send_logs = logs
         /\ lastLogStatusByKey =
              StatusOnly(getLastSendStatusForZip(logs, "a.zip",
                           uniqueAccountKeys(ZipRows("a.zip")), TRUE))
  /\ summary = [zipFilename |-> "a.zip"]
  /\ zipRef = "a.zip"
  /\ rowSendStates = EmptyMap
  /\ selectedRowIds = {}
  /\ skipAlreadySent = TRUE
  /\ isParsingZip = FALSE
  /\ isMutating = FALSE
  /\ isSendingAll = FALSE
  /\ actionError = ""
  /\ addContactState = Null
  /\ parsing = NoParse
  /\ mutation = NoMutation
  /\ bulk = NoBulk
  /\ attempts = <<>>
  /\ nStarted = Len(send_logs)
  /\ nUploads = 1
  /\ sentEarlier = SentIn(send_logs)
  /\ call = NoCall

NextBulk ==
  \/ sendPending
  \/ sendSelectedPendingRows
  \/ retryAllFailed
  \/ \E i \in 1..Len(rows) : ClickSend(i)
  \/ \E i \in 1..Len(rows), selected \in BOOLEAN : setRowSelected(i, selected)
  \/ setSkipAlreadySent
  \/ \E i \in 1..MaxAttempts : ServerPOST(i, SessionOutcomes, {"ok"})
  \/ \E i \in 1..MaxAttempts : ClientResponse(i)
  \/ \E i \in 1..MaxAttempts : QueryServe(i, {TRUE})
  \/ \E i \in 1..MaxAttempts : QueryThrows(i)
  \/ \E i \in 1..MaxAttempts : ApplyRefresh(i)

SpecBulk == InitBulk /\ [][NextBulk]_vars

\* SpecBulkCall, the three bulk functions invoked whatever their buttons
\* show, in particular while a run is active and while the archive filename
\* is unavailable (the two conditions the functions test themselves): the
\* page after the parse of an archive whose file name may be blank; call
\* records the last invocation and what it did: "returned" (a run is
\* active), "noZip", "none" (no row to send) or "started".
\* The operator uploads the next archive when no single-row send is in
\* flight.
BulkCalled(of, res) == call' = [of |-> of, arg |-> 0, res |-> res]

\* The function went on to its loop: whether the loop started an attempt,
\* and the store's time when it did (0: no attempt).
BulkRan(of) ==
  call' = IF nStarted' > nStarted THEN [of |-> of, arg |-> now, res |-> "started"]
          ELSE [of |-> of, arg |-> 0, res |-> "none"]

BulkCallFrame ==
  /\ ~isParsingZip /\ ~isMutating
  /\ nStarted < MaxCallAttempts
  /\ UNCHANGED << rows, selectedRowIds, skipAlreadySent, lastLogStatusByKey, summary,
                  isParsingZip, isMutating, addContactState, zipRef, parsing, mutation,
                  send_logs, nUploads, sentEarlier >>

BulkUntouched == UNCHANGED << rowSendStates, attempts, bulk, isSendingAll, nStarted >>

\* Variant: sendPending without its test of isSendingAll.
CallSendPendingReentrant ==
  /\ IF zipFilename = ""
     THEN /\ actionError' = "ZIP filename is unavailable. Re-upload the file."
          /\ BulkCalled("sendPending", "noZip")
          /\ BulkUntouched
     ELSE /\ Advance(attempts, SelectSeq(rows, SendPendingFilter), rowSendStates,
                     zipFilename, "pending", "")
          /\ BulkRan("sendPending")
  /\ BulkCallFrame

CallSendPending ==
  /\ IF isSendingAll
     THEN /\ BulkCalled("sendPending", "returned")
          /\ UNCHANGED actionError
          /\ BulkUntouched
     ELSE IF zipFilename = ""
     THEN /\ actionError' = "ZIP filename is unavailable. Re-upload the file."
          /\ BulkCalled("sendPending", "noZip")
          /\ BulkUntouched
     ELSE /\ Advance(attempts, SelectSeq(rows, SendPendingFilter), rowSendStates,
                     zipFilename, "pending", "")
          /\ BulkRan("sendPending")
  /\ BulkCallFrame

\* Variant: sendSelectedPendingRows without its test of zipFilename.
CallSendSelectedPendingRowsNoZipTest ==
  /\ IF isSendingAll
     THEN /\ BulkCalled("sendSelectedPendingRows", "returned")
          /\ UNCHANGED actionError
          /\ BulkUntouched
     ELSE LET rowsToSend == SelectSeq(rows, SendSelectedFilter) IN
          IF rowsToSend = << >>
          THEN /\ actionError' = "No eligible selected rows to send."
               /\ BulkCalled("sendSelectedPendingRows", "none")
               /\ BulkUntouched
          ELSE /\ Advance(attempts, rowsToSend, rowSendStates, zipFilename, "selected", "")
               /\ BulkRan("sendSelectedPendingRows")
  /\ BulkCallFrame

CallSendSelectedPendingRows ==
  /\ IF isSendingAll
     THEN /\ BulkCalled("sendSelectedPendingRows", "returned")
          /\ UNCHANGED actionError
          /\ BulkUntouched
     ELSE IF zipFilename = ""
     THEN /\ actionError' = "ZIP filename is unavailable. Re-upload the file."
          /\ BulkCalled("sendSelectedPendingRows", "noZip")
          /\ BulkUntouched
     ELSE LET rowsToSend == SelectSeq(rows, SendSelectedFilter) IN
          IF rowsToSend = << >>
          THEN /\ actionError' = "No eligible selected rows to send."
               /\ BulkCalled("sendSelectedPendingRows", "none")
               /\ BulkUntouched
          ELSE /\ Advance(attempts, rowsToSend, rowSendStates, zipFilename, "selected", "")
               /\ BulkRan("sendSelectedPendingRows")
  /\ BulkCallFrame

CallRetryAllFailed ==
  /\ IF isSendingAll
     THEN /\ BulkCalled("retryAllFailed", "returned")
          /\ UNCHANGED actionError
          /\ BulkUntouched
     ELSE IF zipFilename = ""
     THEN /\ actionError' = "ZIP filename is unavailable. Re-upload the file."
          /\ BulkCalled("retryAllFailed", "noZip")
          /\ BulkUntouched
     ELSE LET rowsToRetry == SelectSeq(rows, RetryFailedFilter) IN
          IF rowsToRetry = << >>
          THEN /\ actionError' = "No failed rows to retry."
               /\ BulkCalled("retryAllFailed", "none")
               /\ BulkUntouched
          ELSE /\ Advance(attempts, rowsToRetry, rowSendStates, zipFilename, "failed", "")
               /\ BulkRan("retryAllFailed")
  /\ BulkCallFrame

InitBulkCall ==
  /\ \E contactsByKey \in ContactResults(ReviewStores, Keys), name \in {"a.zip", " "} :
       /\ rows = mergeRowsWithContacts(ZipRows("a.zip"), contactsByKey)
       /\ summary = [zipFilename |-> name]
  /\ zipRef = "a.zip"
  /\ rowSendStates = EmptyMap
  /\ selectedRowIds = {}
  /\ skipAlreadySent = TRUE
  /\ lastLogStatusByKey = EmptyMap
  /\ isParsingZip = FALSE
  /\ isMutating = FALSE
  /\ isSendingAll = FALSE
  /\ actionError = ""
  /\ addContactState = Null
  /\ parsing = NoParse
  /\ mutation = NoMutation
  /\ bulk = NoBulk
  /\ attempts = <<>>
  /\ send_logs = <<>>
  /\ nStarted = 0
  /\ nUploads = 1
  /\ sentEarlier = {}
  /\ call = NoCall

NextBulkCall ==
  \/ CallSendPending
  \/ CallSendSelectedPendingRows
  \/ CallRetryAllFailed
  \/ \E i \in 1..Len(rows) : nStarted < MaxCallAttempts /\ ClickSend(i)
  \/ \E i \in 1..Len(rows), selected \in BOOLEAN : setRowSelected(i, selected)
  \/ \E f \in {"a.zip"} : (\A i \in 1..Len(attempts) : attempts[i].bulk) /\ ParseStart(f)
  \/ ParseDone(AllPending, {TRUE})
  \/ \E i \in 1..MaxAttempts : ServerPOST(i, SessionOutcomes, {"ok"})
  \/ \E i \in 1..MaxAttempts : ClientResponse(i)
  \/ \E i \in 1..MaxAttempts : QueryServe(i, {TRUE})
  \/ \E i \in 1..MaxAttempts : ApplyRefresh(i)

SpecBulkCall == InitBulkCall /\ [][NextBulkCall]_vars

\* SpecBulkFair, bulk runs to their end: the page of SpecBulkCall, the three
\* bulk functions and the selection; the extraction, the request and the
\* audit query of every attempt return or throw.  Fairness: an await that is
\* pending is eventually settled, and a function whose await has settled
\* goes on.
NextBulkFair ==
  \/ CallSendPending
  \/ CallSendSelectedPendingRows
  \/ CallRetryAllFailed
  \/ \E i \in 1..Len(rows), selected \in BOOLEAN : setRowSelected(i, selected)
  \/ \E i \in 1..MaxAttempts : ExtractThrows(i)
  \/ \E i \in 1..MaxAttempts : ServerPOST(i, SessionOutcomes, {"ok"})
  \/ \E i \in 1..MaxAttempts : FetchThrows(i)
  \/ \E i \in 1..MaxAttempts : ClientResponse(i)
  \/ \E i \in 1..MaxAttempts : QueryServe(i, {TRUE})
  \/ \E i \in 1..MaxAttempts : QueryThrows(i)
  \/ \E i \in 1..MaxAttempts : ApplyRefresh(i)

QuerySettles ==
  \E i \in 1..MaxAttempts : QueryServe(i, {TRUE}) \/ QueryThrows(i)

FunctionGoesOn == \E i \in 1..MaxAttempts : ApplyRefresh(i)

SpecBulkFair ==
  /\ InitBulkCall
  /\ [][NextBulkFair]_vars
  /\ WF_vars(RequestSettles)
  /\ WF_vars(ResponseSettles)
  /\ WF_vars(QuerySettles)
  /\ WF_vars(FunctionGoesOn)

\* SpecValidate, the validation of the request body by the endpoint, for an
\* authorized caller: the fields after toStringOrEmpty, the first check that
\* fails answers 400 through badRequest.
\* EMAIL_PATTERN, /^[^\s@]+@[^\s@]+\.[^\s@]+$/, the addresses the endpoint
\* accepts as to_email.
IsEmailAddress(str) ==
  LET at == IndexOf(str, "@", 1) IN
  /\ " " \notin CharsOf(str)
  /\ at > 1
  /\ IndexOf(str, "@", at + 1) = 0
  /\ \E d \in (at + 2)..(Len(str) - 1) : Char(str, d) = "."

\* Buffer.from(pdfBase64, "base64").length: six bits for every character of
\* the alphabet, other characters are skipped.
DecodedLength(pdfBase64) ==
  (Cardinality({ i \in 1..Len(pdfBase64) :
                   Char(pdfBase64, i) \in Letters \cup Digits \cup {"+", "/"} }) * 6) \div 8

\* The message of the first validation that fails, Null if none does.
ValidationError(body) ==
  LET zip == trim(body.zip_filename)
      accountKey == trim(body.account_key)
      toEmail == toLowerCase(trim(body.to_email))
      filename == trim(body.filename)
      pdfBase64 == trim(body.pdf_base64)
  IN IF zip = "" THEN "zip_filename is required."
     ELSE IF accountKey = "" THEN "account_key is required."
     ELSE IF ~IsEmailAddress(toEmail) THEN "to_email must be a valid email address."
     ELSE IF ~endsWith(toLowerCase(filename), ".pdf") THEN "filename must end with .pdf."
     ELSE IF pdfBase64 = "" THEN "pdf_base64 is required."
     ELSE IF DecodedLength(pdfBase64) = 0 THEN "pdf attachment must be non-empty."
     ELSE Null

\* POST from the parsed body on: a body that fails validation is answered by
\* badRequest, any other goes on to the sender configuration and the transport.
POSTBody(logs, at, body, outcome, ins) ==
  IF ValidationError(body) /= Null
  THEN [logs |-> logs, resp |-> Resp(400, FALSE, ValidationError(body), Null),
        transport |-> FALSE]
  ELSE POST(logs, at,
            [zip_filename |-> trim(body.zip_filename),
             account_key |-> trim(body.account_key),
             to_email |-> toLowerCase(trim(body.to_email))],
            outcome, ins)

InitValidate ==
  /\ FreshPage
  /\ \E body \in [zip_filename : {"", "a.zip"}, account_key : {" ", "K1"},
                   to_email : {"", "A@x.io ", "a@x", "a b@x.io", "@x.io"},
                   filename : {"p1.pdf", "P1.PDF", "p1.txt"},
                   pdf_base64 : {"", "=", "JVBERi0="}],
        n \in 0..MaxPrior :
       \E logs \in PriorLogs(n) :
         call = [of |-> "none", arg |-> [body |-> body, logs |-> logs], res |-> Null]

CallPOSTBody ==
  /\ call.of = "none"
  /\ \E outcome \in LoggedOutcomes :
       call' = [call EXCEPT
         !.of = "POST",
         !.res = POSTBody(call.arg.logs, Len(call.arg.logs) + 1, call.arg.body, outcome, "ok")]
  /\ UNCHANGED page

SpecValidate == InitValidate /\ [][CallPOSTBody]_vars

\* SpecRetry, one send at a time and 'Retry failed': the page after the
\* parse of either archive (in b.zip two rows share each key), every row
\* Pending, over an empty log; a row's button is clicked while no attempt is
\* under way, the audit insert and the audit query succeed.
InitRetry ==
  /\ InitSendRow
  /\ zipFilename /= ""
  /\ \A i \in 1..Len(rows) : rows[i].status = "Pending"

NextRetry ==
  \/ \E i \in 1..Len(rows) : attempts = << >> /\ ClickSend(i)
  \/ retryAllFailed
  \/ \E i \in 1..MaxAttempts : ServerPOST(i, SessionOutcomes, {"ok"})
  \/ \E i \in 1..MaxAttempts : ClientResponse(i)
  \/ \E i \in 1..MaxAttempts : QueryServe(i, {TRUE})
  \/ \E i \in 1..MaxAttempts : ApplyRefresh(i)

SpecRetry == InitRetry /\ [][NextRetry]_vars

\* SpecRequest, the endpoint on one request with its URL: the caller is
\* authorized or not, the body passes validation or not, the URL carries
\* dryRun=1 or not, and the sender configuration, the transport and the
\* audit insert do what they may.
RequestOutcomes == {"unauthorized", "senderConfig", "ack", "noId", "threw"}

\* POST from the request on: authorization, validation of the body and the
\* sender configuration come first; a request whose URL has dryRun=1 is then
\* answered with ok: true, any other goes on to the transport.
POSTRequest(logs, at, dryRun, body, outcome, ins) ==
  IF outcome = "unauthorized"
  THEN [logs |-> logs, resp |-> Resp(401, FALSE, "Not authorized.", Null), transport |-> FALSE]
  ELSE IF ValidationError(body) /= Null \/ outcome = "senderConfig" \/ ~dryRun
  THEN POSTBody(logs, at, body, outcome, ins)
  ELSE [logs |-> logs, resp |-> Resp(200, TRUE, Null, Null), transport |-> FALSE]

InitRequest ==
  /\ FreshPage
  /\ \E body \in [zip_filename : {"", "a.zip"}, account_key : {"K1"},
                   to_email : {"A@x.io ", "a@x"},
                   filename : {"p1.pdf"},
                   pdf_base64 : {"JVBERi0="}],
        dryRun \in BOOLEAN,
        n \in 0..MaxPrior :
       \E logs \in PriorLogs(n) :
         call = [of |-> "none",
                 arg |-> [dryRun |-> dryRun, body |-> body, logs |-> logs],
                 res |-> Null]

CallPOSTRequest ==
  /\ call.of = "none"
  /\ \E outcome \in RequestOutcomes, ins \in InsertOutcomes :
       call' = [call EXCEPT
         !.of = "POST",
         !.res = [outcome |-> outcome, ins |-> ins] @@
                 POSTRequest(call.arg.logs, Len(call.arg.logs) + 1, call.arg.dryRun,
                             call.arg.body, outcome, ins)]
  /\ UNCHANGED page

SpecRequest == InitRequest /\ [][CallPOSTRequest]_vars

\* ------------------------------------------------------------ properties
SendingRows == { id \in DOMAIN rowSendStates : rowSendStates[id].send_state = "sending" }

\* An attempt whose request to the send endpoint is outstanding.
Outstanding(i) == attempts[i].phase \in {"sending", "responded"}

\* C1: while a "send all pending" run is in progress (isSendingAll set by
\* sendPending and not yet cleared), at most one row of the session is in
\* send state sending.
C1_OneSendingDuringSendPending ==
  (isSendingAll /\ bulk.mode = "pending") => Cardinality(SendingRows) <= 1

\* C2: in one browser session at most one row is in send state sending at
\* any time, whether its send was started by a row's button or a bulk mode.
C2_OneAttemptInFlight ==
  \A id1, id2 \in SendingRows : id1 = id2

\* C3: no two transport requests for the same row identity are outstanding
\* at the same time.
C3_NoTwoRequestsForOneRow ==
  \A i, j \in 1..Len(attempts) :
    (i /= j /\ Outstanding(i) /\ Outstanding(j))
      => getRowId(attempts[i].row) /= getRowId(attempts[j].row)

\* The rows a bulk run still has to send or is sending.
RunRows ==
  SeqToSet(bulk.queue) \cup { attempts[i].row : i \in { j \in 1..Len(attempts) : attempts[j].bulk } }

\* C4 as stated: with the skip toggle on, a "send all pending" run has no
\* transport request under way for a key of the archive that was sent in an
\* earlier upload session of the same archive name.
C4_NoRequestAfterEarlierSuccess ==
  \A i \in 1..Len(attempts) :
    (attempts[i].bulk /\ bulk.mode = "pending" /\ skipAlreadySent /\ Outstanding(i))
      => << attempts[i].zip, attempts[i].row.account_key >> \notin sentEarlier

\* C4 (amended): a "send all pending" run started with the skip toggle on
\* contains no row whose key's last known audit status, at the start of the
\* run, is sent.
C4_SkipsLastKnownSent ==
  [][ (~bulk.active /\ bulk'.active /\ bulk'.mode = "pending" /\ skipAlreadySent)
        => \A r \in RunRows' : LastStatus(lastLogStatusByKey, r.account_key) /= "sent" ]_vars

\* A run is under way that left out a row sent in an earlier session of the
\* same archive, whose last known audit status is sent.
C4_Witness ==
  /\ bulk.active /\ bulk.mode = "pending" /\ skipAlreadySent
  /\ \E i \in 1..Len(rows) :
       /\ << zipFilename, rows[i].account_key >> \in sentEarlier
       /\ LastStatus(lastLogStatusByKey, rows[i].account_key) = "sent"
       /\ RowState(rowSendStates, getRowId(rows[i])).send_state = "idle"
       /\ rows[i] \notin RunRows

\* C5: once a row's send state is sent, no send (single-row or bulk) starts
\* a transport request for that row in the rest of the archive session: a
\* step that starts an attempt starts it for a row that is not sent.
C5_NoRequestOnceSent ==
  [][ nStarted' > nStarted =>
        LET a == attempts'[Len(attempts')] IN
        a.phase = "sending" =>
          RowState(rowSendStates, getRowId(a.row)).send_state /= "sent" ]_vars

\* An attempt that ended sent and whose audit query has been answered.
SentAndQueried(i) ==
  attempts[i].phase = "queried" /\ attempts[i].final = "sent" /\ ~attempts[i].thrown

HasEmail(row) == row.contact_email /= Null /\ row.contact_email /= ""

\* C6: a Blocked row is never attempted: every call of sendEmailForRow under
\* way, and so every transport request, is for a row that is Pending and
\* has a contact email; the list of a bulk run holds Pending rows only; and
\* every selected row is a Pending row.
C6_BlockedNeverAttempted ==
  /\ \A i \in 1..Len(attempts) :
       attempts[i].row.status = "Pending" /\ HasEmail(attempts[i].row)
  /\ \A j \in 1..Len(bulk.queue) :
       bulk.queue[j].status = "Pending" /\ HasEmail(bulk.queue[j])
  /\ \A id \in selectedRowIds :
       \E i \in 1..Len(rows) : getRowId(rows[i]) = id /\ rows[i].status = "Pending"

\* A bulk run is sending a row while another row of the session is Blocked.
C6_Witness ==
  /\ bulk.active
  /\ \E j \in 1..Len(attempts) : attempts[j].bulk /\ Outstanding(j)
  /\ \E i \in 1..Len(rows) : rows[i].status = "Blocked" /\ rows[i].contact_email = ""

\* C7: after reconciliation at parse time and after every contact refresh,
\* every row is Pending if its contact email is non-empty and Blocked
\* otherwise.
C7_PendingIffEmail ==
  \A i \in 1..Len(rows) :
    /\ rows[i].status \in {"Pending", "Blocked"}
    /\ rows[i].status = "Pending" <=> HasEmail(rows[i])

\* A contact refresh has just recomputed the rows: one row is Pending and
\* one has a contact whose email is empty.
C7_Witness ==
  /\ mutation.phase = "refresh"
  /\ \E i, j \in 1..Len(rows) :
       /\ rows[i].status = "Pending" /\ rows[i].contact_email = GoodEmail
       /\ rows[j].status = "Blocked" /\ rows[j].contact_email = ""

\* The endpoint has just completed attempt i (every branch that reaches the
\* transport or fails on the sender configuration).
Completes(i) ==
  /\ i \in 1..Len(attempts) /\ i \in 1..Len(attempts')
  /\ attempts[i].phase = "sending" /\ attempts'[i].phase = "responded"
  /\ attempts'[i].outcome \in LoggedOutcomes

\* C8 as stated: every attempt the endpoint completes adds exactly one entry
\* to the send log.
C8_ExactlyOneEntry ==
  [][ \A i \in 1..MaxAttempts :
        Completes(i) => Len(send_logs') = Len(send_logs) + 1 ]_vars

\* C8 (amended): every attempt the endpoint completes adds exactly one entry
\* for its request, with the status of its outcome, when the audit insert
\* succeeds, and none when the insert fails; never two.
C8_OneEntryIfInsertOk ==
  [][ \A i \in 1..MaxAttempts :
        Completes(i) =>
          IF attempts'[i].ins = "ok"
          THEN /\ Len(send_logs') = Len(send_logs) + 1
               /\ SubSeq(send_logs', 1, Len(send_logs)) = send_logs
               /\ LET e == send_logs'[Len(send_logs')] IN
                    /\ e.zip_filename = attempts[i].zip
                    /\ e.account_key = attempts[i].row.account_key
                    /\ e.status = (IF attempts'[i].outcome = "ack" THEN "sent" ELSE "failed")
          ELSE send_logs' = send_logs ]_vars

\* The endpoint completed an attempt whose transport threw and logged it.
C8_Witness ==
  \E i \in 1..Len(attempts) :
    /\ attempts[i].phase = "responded" /\ attempts[i].outcome = "threw"
    /\ attempts[i].ins = "ok"
    /\ attempts[i].logged_at = Len(send_logs)
    /\ send_logs[Len(send_logs)].status = "failed"

\* C10: the response of the endpoint, and the row state the client derives
\* from it, are the same whatever the audit insert does: they are those of
\* the same request and transport outcome with any other insert outcome.
C10_InsertNeverChangesOutcome ==
  \A i \in 1..Len(attempts) :
    /\ attempts[i].phase = "responded" =>
         \A ins \in InsertOutcomes :
           LET r == POST(<<>>, 1, Request(i), attempts[i].outcome, ins) IN
           /\ attempts[i].resp = r.resp
           /\ StateFromResponse(attempts[i].resp) = StateFromResponse(r.resp)
    /\ (attempts[i].phase \in {"query", "queried"} /\ ~attempts[i].thrown) =>
         \A ins \in InsertOutcomes :
           LET r == POST(<<>>, 1, Request(i), attempts[i].outcome, ins) IN
           attempts[i].final = StateFromResponse(r.resp).send_state

\* The transport acknowledged, the audit insert failed and the client has
\* marked the row sent.
C10_Witness ==
  \E i \in 1..Len(attempts) :
    /\ attempts[i].phase = "query" /\ ~attempts[i].thrown
    /\ attempts[i].outcome = "ack" /\ attempts[i].ins \in {"error", "throws"}
    /\ attempts[i].final = "sent"
    /\ RowState(rowSendStates, getRowId(attempts[i].row)).send_state = "sent"

\* C11: the send log only grows: in every step every entry present before
\* the step is present, at its place and unchanged, after it.
C11_LogOnlyGrows ==
  [][ /\ Len(send_logs') >= Len(send_logs)
      /\ SubSeq(send_logs', 1, Len(send_logs)) = send_logs ]_vars

\* The endpoint has appended the entry of the attempt, and then that of
\* another session, after an entry that an earlier session left.
C11_Witness ==
  \E i \in 1..Len(attempts) :
    /\ attempts[i].logged_at = 2
    /\ Len(send_logs) = 3
    /\ send_logs[1].sent_at = 1 /\ send_logs[2].sent_at = 2 /\ send_logs[3].sent_at = 3

\* A response settles, outside parsing, the row of an attempt that was
\* started under an earlier upload.
StaleSettles(i) ==
  /\ i \in 1..Len(attempts) /\ Len(attempts') = Len(attempts)
  /\ attempts[i].upload < nUploads
  /\ ~isParsingZip
  /\ attempts[i].phase = "responded" /\ attempts'[i].phase = "query"

\* C12: once parsing of a newly uploaded archive is complete, the per-row
\* send states of the session hold nothing produced by a send that was
\* started under the previous archive: the response of such a send leaves
\* the send states of the new session as they are.
C12_NoCarryover ==
  [][ \A i \in 1..MaxAttempts :
        StaleSettles(i) => rowSendStates' = rowSendStates ]_vars

\* C13: in every bulk mode no error local to one row ends the loop early:
\* a run ends only when no row left in its list starts an attempt (every
\* row of the list has had its call of sendEmailForRow).
C13_LoopNeverEndsEarly ==
  [][ (bulk.active /\ ~bulk'.active) =>
        ~RunLoop(bulk.queue, bulk.snap, bulk.zip, rowSendStates).start ]_vars

\* C14: the audit query returns, for each requested key with at least one
\* entry for the archive, the status and sent_at of the entry with the
\* greatest sent_at, whatever the order in which the store yields the
\* entries; a key with no matching entry is absent from the result.
C14_QueryReturnsGreatest ==
  call.of = "getLastSendStatusForZip" =>
    LET m == Matching(call.arg.logs, call.arg.zip, call.arg.keys) IN
    \A k \in call.arg.keys :
      LET mk == { i \in 1..Len(m) : m[i].account_key = k } IN
      IF mk = {} THEN k \notin DOMAIN call.res
      ELSE /\ k \in DOMAIN call.res
           /\ \E i \in mk :
                /\ \A j \in mk : m[j].sent_at <= m[i].sent_at
                /\ call.res[k] = [status |-> m[i].status, sent_at |-> m[i].sent_at]

\* The words of a message: its longest stretches without a blank.
Words(str) ==
  { SubSeq(str, i, j) :
      i \in { x \in 1..Len(str) : x = 1 \/ Char(str, x - 1) = " " },
      j \in { x \in 1..Len(str) : x = Len(str) \/ Char(str, x + 1) = " " } }

\* An accepted address of the usual shape: no empty label on either side of
\* the @ and a last label of two or more letters.
IsPlainAddress(str) ==
  /\ IsEmailAddress(str)
  /\ Head(str) /= "." /\ Char(str, Len(str)) /= "."
  /\ ~\E i \in 1..(Len(str) - 1) : SubSeq(str, i, i + 1) \in {"..", ".@", "@."}
  /\ \E d \in 1..(Len(str) - 2) :
       /\ Char(str, d) = "."
       /\ \A x \in (d + 1)..Len(str) : Char(str, x) \in Letters

Contains(str, part) ==
  \E i \in 1..(Len(str) - Len(part) + 1) : SubSeq(str, i, i + Len(part) - 1) = part

\* C15: when the transport throws with a message that contains an email
\* address, the error stored in the send log and the error returned to the
\* client do not contain that literal address.
C15_NoLiteralAddress ==
  call.of = "POST" =>
    \A w \in Words(call.arg) :
      IsPlainAddress(w) =>
        /\ ~Contains(call.res.logs[1].error, w)
        /\ ~Contains(call.res.resp.error, w)

\* C16: for a caller without a session, or with neither the admin role nor
\* an allow-listed email, the send endpoint calls no transport, writes no
\* log entry and answers unauthorized; the contact lookup and the audit
\* query return the empty mapping.
NotAdmin(caller) ==
  \/ ~caller.claims
  \/ ~caller.user
  \/ /\ caller.role \notin {"admin", "Admin"}
     /\ caller.email \notin {"boss@x.io", "Boss@X.io "}

C16_NonAdminGetsNothing ==
  NotAdmin(call.arg.caller) =>
    /\ call.of = "POST" =>
         /\ ~call.res.transport
         /\ call.res.logs = call.arg.logs
         /\ call.res.resp.status = 401 /\ ~call.res.resp.ok
    /\ call.of = "getContactsByKeys" => call.res = EmptyMap
    /\ call.of = "getLastSendStatusForZipAs" => call.res = EmptyMap

\* A caller with a session and a user record, but a member role and an
\* email that is not on the allow list, has queried a log that holds
\* entries.
C16_Witness ==
  /\ call.of = "getLastSendStatusForZipAs"
  /\ call.arg.caller = [claims |-> TRUE, user |-> TRUE, email |-> "eve@x.io", role |-> "member"]
  /\ Len(call.arg.logs) > 0
  /\ call.res = EmptyMap

\* The two reserved administrative prefixes, and the base names that start
\* with one of them.
ReservedPrefixes == {"Bill_Admin_", "Summary_Admin_Closing_Adjustment_"}

AdminNamed(path) ==
  \E p \in ReservedPrefixes, i \in 1..Len(path) :
    /\ i = 1 \/ Char(path, i - 1) = "/"
    /\ i + Len(p) - 1 <= Len(path)
    /\ SubSeq(path, i, i + Len(p) - 1) = p
    /\ \A j \in i..Len(path) : Char(path, j) /= "/"

EndsInPdf(path) ==
  Len(path) >= 4 /\ SubSeq(path, Len(path) - 3, Len(path)) \in {".pdf", ".PDF"}

\* The entries of a success list with a PDF path that is not administrative.
PdfEntries(success) ==
  { i \in 1..Len(success) :
      /\ success[i].object
      /\ success[i].pdf /= Null
      /\ EndsInPdf(success[i].pdf)
      /\ ~AdminNamed(success[i].pdf) }

KeyedPdfEntries(success) ==
  { i \in PdfEntries(success) : success[i].key /= Null /\ trim(success[i].key) /= "" }

\* Each entry of Q has a record of its own in parsedRows, with the trimmed
\* key of the entry, and the records follow the order of the entries.
RecordPerEntry(success, Q, parsedRows) ==
  \E f \in [Q -> 1..Len(parsedRows)] :
    /\ \A i, j \in Q : i < j => f[i] < f[j]
    /\ \A i \in Q :
         /\ parsedRows[f[i]].account_key =
              (IF success[i].key = Null THEN "" ELSE trim(success[i].key))
         /\ parsedRows[f[i]].zip_entry_path = success[i].pdf

ManifestParsed ==
  call.of = "parseUploadedZip" /\ call.arg.manifest.kind = "object" /\ call.arg.manifest.isArray

\* C17 as stated: for every manifest that parses as JSON, each entry of its
\* success list whose pdf path ends in the PDF extension and whose base name
\* is not an excluded administrative filename produces exactly one billing
\* record, whose account_key equals the entry's trimmed key; the records keep
\* the order of the success list.
C17_EveryPdfEntryOneRecord ==
  ManifestParsed =>
    RecordPerEntry(call.arg.manifest.success, PdfEntries(call.arg.manifest.success),
                   call.res.parsedRows)

\* C17 amended: the same for the entries whose trimmed key is not empty; an
\* entry with a missing or blank key produces no record.
C17_EveryKeyedPdfEntryOneRecord ==
  ManifestParsed =>
    /\ RecordPerEntry(call.arg.manifest.success, KeyedPdfEntries(call.arg.manifest.success),
                      call.res.parsedRows)
    /\ \A r \in SeqToSet(call.res.parsedRows) : r.account_key /= ""

\* A manifest of two entries, a text file and a PDF whose key has blanks
\* around it, has produced the one record of the PDF.
C17_Witness ==
  /\ ManifestParsed
  /\ Len(call.arg.manifest.success) = 2
  /\ call.arg.manifest.success[1].pdf = "K1.txt"
  /\ call.arg.manifest.success[2].key = " K2 "
  /\ call.arg.manifest.success[2].pdf = "out/Bill_K1_d1.pdf"
  /\ Len(call.res.parsedRows) = 1
  /\ call.res.parsedRows[1].account_key = "K2"

\* File names of the form Bill_{key}_{date}.pdf, in any directory: the key
\* is the segment up to the first underscore after the prefix.
KeySegments == {"", " ", "K1", "K2", " K1 ", "Admin"}
DateSegments == {"", " ", "d1", " d2 ", "d1_x"}

BillNamed(name, key, date) ==
  \E d \in {"", "out/"}, ext \in {".pdf", ".PDF"} :
    name = d \o "Bill_" \o key \o "_" \o date \o ext

TrimmedOrNull(date) == IF trim(date) = "" THEN Null ELSE trim(date)

RecordsOf(parsedRows, name) ==
  { i \in 1..Len(parsedRows) : parsedRows[i].zip_entry_path = name }

FallbackParsed ==
  call.of = "parseUploadedZip" /\ call.res.source = "fallback"

\* C18 as stated: on the fallback path, every archive entry whose base name
\* has the form Bill_{key}_{date}.pdf with non-empty key yields a record with
\* that key and trade_date equal to the trimmed date (null if empty); entries
\* with an empty key segment are dropped.
C18_EveryBillNameOneRecord ==
  FallbackParsed =>
    \A i \in 1..Len(call.arg.files), key \in KeySegments, date \in DateSegments :
      BillNamed(call.arg.files[i].name, key, date) =>
        LET recs == RecordsOf(call.res.parsedRows, call.arg.files[i].name)
        IN IF key = "" THEN recs = {}
           ELSE /\ Cardinality(recs) = 1
                /\ \A j \in recs :
                     /\ call.res.parsedRows[j].account_key = key
                     /\ call.res.parsedRows[j].trade_date = TrimmedOrNull(date)

\* C18 amended: the record holds the trimmed key; entries whose key segment
\* is empty or blank, and entries with a reserved administrative prefix,
\* are dropped.
C18_EveryKeyedBillNameOneRecord ==
  FallbackParsed =>
    \A i \in 1..Len(call.arg.files), key \in KeySegments, date \in DateSegments :
      BillNamed(call.arg.files[i].name, key, date) =>
        LET recs == RecordsOf(call.res.parsedRows, call.arg.files[i].name)
        IN IF trim(key) = "" \/ AdminNamed(call.arg.files[i].name) THEN recs = {}
           ELSE /\ Cardinality(recs) = 1
                /\ \A j \in recs :
                     /\ call.res.parsedRows[j].account_key = trim(key)
                     /\ call.res.parsedRows[j].trade_date = TrimmedOrNull(date)

\* An archive without manifest, holding a bill in a directory with blanks
\* around its date and a bill with an empty key segment, has yielded the
\* record of the first only.
C18_Witness ==
  /\ FallbackParsed
  /\ call.arg.files = << ZipFile("out/Bill_K2_ d2 .pdf"), ZipFile("Bill__d1.pdf") >>
  /\ call.res.parsedRows =
       << ParsedBillRow("K2", "Bill_K2_ d2 .pdf", "out/Bill_K2_ d2 .pdf", "d2") >>

NotAdminNamed(file) == ~AdminNamed(file.name)

\* C19: no billing record is ever produced, on the manifest path or on the
\* fallback path, for a file whose base name starts with one of the two
\* reserved administrative prefixes; on the fallback path the other
\* qualifying files of the same archive still yield their records.
C19_NoAdminRecord ==
  call.of = "parseUploadedZip" =>
    /\ \A r \in SeqToSet(call.res.parsedRows) :
         ~AdminNamed(r.zip_entry_path) /\ ~AdminNamed(r.pdf_filename)
    /\ call.res.source = "fallback" =>
         call.res.parsedRows = parseFallbackRows(SelectSeq(call.arg.files, NotAdminNamed))

\* An archive without manifest that holds an administrative bill before the
\* bill of an account has yielded the record of the account only.
C19_Witness ==
  /\ FallbackParsed
  /\ call.arg.files = << ZipFile("Bill_Admin_d1.pdf"), ZipFile("Bill_K1_d1.pdf") >>
  /\ call.res.parsedRows = << ParsedBillRow("K1", "Bill_K1_d1.pdf", "Bill_K1_d1.pdf", "d1") >>

\* C20: when a send is invoked for a row that has no resolved contact email,
\* or while the archive filename is unavailable, the call is a no-op: the
\* row's send state and error message are unchanged, no transport request is
\* made and no log entry is written.
C20_RefusedSendIsNoOp ==
  [][ \A i \in 1..Len(rows) :
        ( /\ CallSendEmailForRow(i)
          /\ \/ rows[i].contact_email \in {Null, ""}
             \/ summary = NoSummary
             \/ summary.zipFilename \in {"", " "} )
        => /\ RowState(rowSendStates', getRowId(rows[i])) = RowState(rowSendStates, getRowId(rows[i]))
           /\ attempts' = attempts
           /\ send_logs' = send_logs ]_vars

\* The send state of a row before and after a step.
SendStateOf(states, id) == RowState(states, id).send_state

\* A step in which a call of sendEmailForRow set its row to sending and, with
\* the PDF missing, to failed before its first await.
StartedAndThrew(id) ==
  /\ Len(attempts') = Len(attempts) + 1
  /\ getRowId(attempts'[Len(attempts')].row) = id
  /\ attempts'[Len(attempts')].thrown

\* C21: every change of a row's send state within one archive session is one
\* of idle->sending, sending->sent, sending->failed or failed->sending; no
\* row goes from idle directly to failed and none leaves sent, the only other
\* change being the reset to idle when a new archive is parsed.
C21_OnlyLegalTransitions ==
  [][ \A id \in (DOMAIN rowSendStates) \cup (DOMAIN rowSendStates') :
        LET before == SendStateOf(rowSendStates, id)
            after == SendStateOf(rowSendStates', id)
        IN \/ before = after
           \/ << before, after >> \in { << "idle", "sending" >>, << "sending", "sent" >>,
                                        << "sending", "failed" >>, << "failed", "sending" >> }
           \/ before \in {"idle", "failed"} /\ after = "failed" /\ StartedAndThrew(id)
           \/ after = "idle" /\ (isParsingZip \/ isParsingZip') ]_vars

\* C22: a send request that fails validation (malformed recipient address,
\* empty attachment, missing recipient email) makes no transport call,
\* yields a failed outcome with a specific message, and appends a failed
\* entry to the audit log.
C22_InvalidRequestIsLogged ==
  ( /\ call.of = "POST"
    /\ call.arg.body.zip_filename = "a.zip" /\ call.arg.body.account_key = "K1"
    /\ \/ call.arg.body.to_email \in {"", "a@x", "a b@x.io", "@x.io"}
       \/ call.arg.body.pdf_base64 \in {"", "="} )
  => /\ ~call.res.transport
     /\ ~call.res.resp.ok /\ call.res.resp.error \notin {Null, ""}
     /\ Len(call.res.logs) = Len(call.arg.logs) + 1
     /\ call.res.logs[Len(call.res.logs)].status = "failed"

\* The three lookups for a row in the entries of the archive at hand: the
\* entries equal to the row's entry path, those equal to its filename, and
\* the positions of the entries with the base name of its filename.
PathHits(row) == { n \in SeqToSet(ZipEntries(zipRef)) : n = row.zip_entry_path }
NameHits(row) == { n \in SeqToSet(ZipEntries(zipRef)) : n = row.pdf_filename }
ScanHits(row) ==
  { k \in 1..Len(ZipEntries(zipRef)) :
      /\ Char(ZipEntries(zipRef)[k], Len(ZipEntries(zipRef)[k])) /= "/"
      /\ getBaseName(ZipEntries(zipRef)[k]) = getBaseName(row.pdf_filename) }

FirstLookup(row) ==
  IF PathHits(row) /= {} THEN row.zip_entry_path
  ELSE IF NameHits(row) /= {} THEN row.pdf_filename
  ELSE ZipEntries(zipRef)[CHOOSE k \in ScanHits(row) : \A j \in ScanHits(row) : k <= j]

PassesGuards(row) ==
  /\ row.contact_email \notin {Null, ""}
  /\ zipFilename /= ""
  /\ SendStateOf(rowSendStates, getRowId(row)) /= "sending"

\* C23: if none of the three lookups (exact entry path, exact filename,
\* base-name scan over all entries) locates the row's PDF in the in-memory
\* archive, the row goes from sending to failed with a PDF-not-found message
\* and no request is sent to the send endpoint; if any of them succeeds, the
\* first in that order supplies the bytes.
C23_LookupOrder ==
  [][ \A i \in 1..Len(rows) :
        (CallSendEmailForRow(i) /\ PassesGuards(rows[i]) /\ Len(attempts') = Len(attempts) + 1) =>
          LET row == rows[i]
              a == attempts'[Len(attempts')]
          IN IF PathHits(row) = {} /\ NameHits(row) = {} /\ ScanHits(row) = {}
             THEN /\ RowState(rowSendStates', getRowId(row)) =
                       [send_state |-> "failed",
                        send_error |-> "Could not find PDF in ZIP: " \o row.pdf_filename]
                  /\ a.thrown /\ a.phase = "query" /\ a.entry = Null
                  /\ send_logs' = send_logs
             ELSE /\ SendStateOf(rowSendStates', getRowId(row)) = "sending"
                  /\ a.phase = "sending"
                  /\ a.entry = FirstLookup(row) ]_vars

\* In an archive whose manifest paths differ from its entries, the row of
\* p5.pdf has failed because no entry has that base name, and the bytes of
\* the row of p4.pdf come from the first of two entries with its base name.
C23_Witness ==
  /\ zipRef = "b.zip"
  /\ RowState(rowSendStates, << "K2", "x/p5.pdf", "p5.pdf" >>).send_error =
       "Could not find PDF in ZIP: p5.pdf"
  /\ \E k \in 1..Len(attempts) :
       /\ attempts[k].row.pdf_filename = "p4.pdf"
       /\ attempts[k].entry = "z/p4.pdf"
       /\ attempts[k].phase = "sending"
  /\ \A k \in 1..Len(attempts) : attempts[k].row.pdf_filename = "p5.pdf" => attempts[k].outcome = "none"

\* The positions of the attempts whose row has not been settled yet.
Unsettled == { i \in 1..Len(attempts) : attempts[i].phase \in {"sending", "responded"} }

\* C24: every attempt that entered sending is followed, whether it ended sent
\* or failed, by an audit-log query for that row's account key under the
\* session's archive filename, and in a bulk run this query completes before
\* the next row enters sending.
C24_QueryFollowsAttempt ==
  [][ /\ \A i \in Unsettled :
           \E j \in {i - 1, i} \cap (1..Len(attempts')) :
             /\ attempts'[j].row = attempts[i].row
             /\ attempts'[j].started = attempts[i].started
             /\ attempts'[j].phase \in {"sending", "responded", "query"}
             /\ attempts'[j].phase = "query" =>
                  /\ attempts'[j].final \in {"sent", "failed"}
                  /\ attempts'[j].zip = zipFilename
      /\ \A i \in 1..Len(attempts) :
           ( /\ attempts[i].phase = "query"
             /\ Len(attempts') = Len(attempts)
             /\ attempts' = [attempts EXCEPT ![i] = attempts'[i]]
             /\ attempts'[i].phase = "queried"
             /\ attempts'[i].q.ok )
           => attempts'[i].q.present =
                (\E k \in 1..Len(send_logs) :
                   /\ send_logs[k].account_key = attempts[i].row.account_key
                   /\ send_logs[k].zip_filename = zipFilename)
      /\ ( /\ bulk.active
           /\ Len(attempts') > 0
           /\ attempts'[Len(attempts')].bulk
           /\ attempts'[Len(attempts')].phase = "sending"
           /\ \/ Len(attempts') > Len(attempts)
              \/ attempts'[Len(attempts')] /= attempts[Len(attempts)] )
         => \E i \in 1..Len(attempts) :
              /\ attempts[i].bulk
              /\ attempts[i].phase = "queried"
              /\ attempts' = Append(RemoveAt(attempts, i), attempts'[Len(attempts')]) ]_vars

\* A bulk run has sent the row of K1, its audit query has reported the new
\* entry, and the run is now sending the row of K2.
C24_Witness ==
  /\ bulk.active
  /\ \E i \in 1..Len(attempts) :
       attempts[i].bulk /\ attempts[i].phase = "sending" /\ attempts[i].row.account_key = "K2"
  /\ \E j \in 1..Len(rows) :
       /\ rows[j].account_key = "K1"
       /\ SendStateOf(rowSendStates, getRowId(rows[j])) = "sent"
  /\ LastStatus(lastLogStatusByKey, "K1") = "sent"
  /\ \E k \in 1..Len(send_logs) :
       send_logs[k].account_key = "K1" /\ send_logs[k].status = "sent"

\* ---------------------------------------------------------------- C25-C27
\* The row for which the step starts an attempt of a bulk run.
RunAttempt ==
  /\ nStarted' > nStarted
  /\ Len(attempts') > 0
  /\ attempts'[Len(attempts')].bulk

\* A run of the given mode attempts exactly the rows of claimed, in their
\* order: the run starts with them, every attempt is for the next of them,
\* and the run ends only when none is left.
AttemptsExactly(mode, claimed) ==
  /\ (~bulk.active /\ bulk'.active /\ bulk'.mode = mode)
       => /\ RunAttempt
          /\ << attempts'[Len(attempts')].row >> \o bulk'.queue = claimed
  /\ (bulk.active /\ bulk.mode = mode /\ RunAttempt)
       => << attempts'[Len(attempts')].row >> \o bulk'.queue = bulk.queue
  /\ (bulk.active /\ bulk.mode = mode /\ ~bulk'.active)
       => bulk.queue = << >>

NotSentInSession(row) ==
  SendStateOf(rowSendStates, getRowId(row)) /= "sent"

LastKnownStatus(row) ==
  IF row.account_key \in DOMAIN lastLogStatusByKey
  THEN lastLogStatusByKey[row.account_key] ELSE Null

EligiblePending(row) ==
  /\ row.status = "Pending"
  /\ NotSentInSession(row)
  /\ skipAlreadySent => LastKnownStatus(row) /= "sent"

\* C25: a 'send all pending' run attempts exactly the rows that at its start
\* are Pending, not sent in this session and, with the skip toggle on, not
\* last known as sent in the audit log; with the toggle off the rows last
\* known as sent are attempted too.
C25_SendPendingAttemptsEligible ==
  [][AttemptsExactly("pending", SelectSeq(rows, EligiblePending))]_vars

EligibleSelected(row) ==
  getRowId(row) \in selectedRowIds /\ EligiblePending(row)

\* C26: a 'send selected' run attempts exactly the selected rows that pass
\* the filter of 'send all pending'; with no eligible selected row no run
\* starts: no row state changes, the in-progress flag stays false and the
\* action error is set.
C26_SendSelectedAttemptsEligible ==
  [][ /\ AttemptsExactly("selected", SelectSeq(rows, EligibleSelected))
      /\ (sendSelectedPendingRows /\ SelectSeq(rows, EligibleSelected) = << >>)
           => /\ rowSendStates' = rowSendStates
              /\ attempts' = attempts
              /\ ~isSendingAll'
              /\ actionError' /= "" ]_vars

EligibleFailed(row) ==
  /\ row.status = "Pending"
  /\ LastKnownStatus(row) = "failed"
  /\ NotSentInSession(row)

\* C27: a 'retry failed' run attempts exactly the Pending rows whose last
\* known audit status is failed and that are not sent in this session; a row
\* whose key has no audit entry is never attempted by the run, even when its
\* send state in the session is failed.
C27_RetryFailedAttemptsEligible ==
  [][ /\ AttemptsExactly("failed", SelectSeq(rows, EligibleFailed))
      /\ (bulk'.active /\ bulk'.mode = "failed" /\ RunAttempt)
           => attempts'[Len(attempts')].row.account_key \in DOMAIN lastLogStatusByKey ]_vars

\* -------------------------------------------------------------------- C28
BulkAttempts(atts) == { i \in 1..Len(atts) : atts[i].bulk }

IsSuffix(s, t) ==
  /\ Len(s) <= Len(t)
  /\ s = SubSeq(t, Len(t) - Len(s) + 1, Len(t))

BulkFunctions == {"sendPending", "sendSelectedPendingRows", "retryAllFailed"}

\* The step is the call of a bulk function.
BulkInvoked ==
  /\ call'.of \in BulkFunctions
  /\ \/ call'.of /= call.of
     \/ call'.res /= call.res
     \/ call.of \in BulkFunctions /\ call'.arg /= call.arg

\* C28: while a bulk run is active, a bulk function that is triggered
\* returns without starting a run and no upload starts, so the attempts of
\* at most one run are under way; the flag is cleared when the run ends,
\* and a Pending row that is idle or failed then accepts a single-row send.
C28_OneRunNoUpload ==
  [][ /\ isSendingAll =>
           /\ ~isParsingZip'
           /\ nUploads' = nUploads
           /\ bulk'.active => /\ bulk'.mode = bulk.mode
                              /\ IsSuffix(bulk'.queue, bulk.queue)
           /\ BulkInvoked =>
                /\ call'.res = "returned"
                /\ attempts' = attempts
                /\ rowSendStates' = rowSendStates
                /\ bulk' = bulk
      /\ Cardinality(BulkAttempts(attempts')) <= 1
      /\ isSendingAll' = bulk'.active
      /\ (bulk.active /\ ~bulk'.active /\ nStarted' < MaxCallAttempts) =>
           \A i \in 1..Len(rows') :
             ( /\ rows'[i].status = "Pending"
               /\ SendStateOf(rowSendStates', getRowId(rows'[i])) \in {"idle", "failed"} )
             => (ENABLED ClickSend(i))' ]_vars

\* A run was started by the last bulk trigger, sent K1 and ended; a
\* single-row send for K2, started after it, is under way.
C28_Witness ==
  /\ ~isSendingAll
  /\ nUploads = 1
  /\ SendStateOf(rowSendStates, getRowId(rows[1])) = "sent"
  /\ call.of \in BulkFunctions /\ call.res = "started"
  /\ \E k \in 1..Len(send_logs) :
       /\ send_logs[k].account_key = "K1"
       /\ send_logs[k].sent_at = call.arg
  /\ \E i \in 1..Len(attempts) :
       /\ ~attempts[i].bulk
       /\ attempts[i].row.account_key = "K2"
       /\ attempts[i].phase = "sending"
       /\ attempts[i].started > call.arg

\* -------------------------------------------------------------------- C29
\* C29: with the archive filename unavailable, the call of a bulk function
\* changes no row's send state, starts no attempt (so no request goes to the
\* send endpoint), leaves the in-progress flag false and sets the action
\* error.
C29_NoFilenameNoRun ==
  [][ (zipFilename = "" /\ BulkInvoked) =>
        /\ rowSendStates' = rowSendStates
        /\ attempts' = attempts
        /\ nStarted' = nStarted
        /\ send_logs' = send_logs
        /\ ~isSendingAll'
        /\ bulk' = NoBulk
        /\ actionError' /= "" ]_vars

\* 'Send selected' was invoked for a selected Pending row of an archive
\* whose file name is blank.
C29_Witness ==
  /\ zipFilename = ""
  /\ call = [of |-> "sendSelectedPendingRows", arg |-> 0, res |-> "noZip"]
  /\ \E i \in 1..Len(rows) :
       /\ rows[i].status = "Pending"
       /\ getRowId(rows[i]) \in selectedRowIds
       /\ SendStateOf(rowSendStates, getRowId(rows[i])) = "idle"
  /\ actionError = "ZIP filename is unavailable. Re-upload the file."
  /\ ~isSendingAll
  /\ attempts = << >>

\* -------------------------------------------------------------------- C30
\* The step starts an attempt for the row with this id.
AttemptStartedFor(id) ==
  /\ nStarted' > nStarted
  /\ Len(attempts') > 0
  /\ getRowId(attempts'[Len(attempts')].row) = id

\* The step that starts an attempt is an operator's trigger (a click on the
\* row, the start of a bulk run) or takes the next row of the run that a
\* trigger started, each row of the run once.
StartedByTrigger ==
  LET a == attempts'[Len(attempts')] IN
  IF ~a.bulk THEN attempts' = Append(attempts, a) /\ bulk' = bulk
  ELSE IF ~bulk.active THEN bulk'.active /\ a.row \notin SeqToSet(bulk'.queue)
  ELSE /\ a.row \in SeqToSet(bulk.queue)
       /\ a.row \notin SeqToSet(bulk'.queue)
       /\ IsSuffix(bulk'.queue, bulk.queue)

\* C30: a request reaches the send endpoint only for an attempt that a
\* trigger of the operator started, an attempt starts only by such a trigger
\* (a bulk run attempts each of its rows once), and a failed row keeps its
\* state and its message until an attempt for it starts (or an upload
\* replaces the session).
C30_NoAutomaticRetry ==
  [][ /\ send_logs' /= send_logs =>
           \E i \in 1..Len(attempts) :
             /\ attempts[i].phase = "sending"
             /\ Len(attempts') = Len(attempts)
             /\ attempts'[i].phase = "responded"
      /\ nStarted' > nStarted => StartedByTrigger
      /\ \A id \in DOMAIN rowSendStates :
           ( /\ rowSendStates[id].send_state = "failed"
             /\ ~isParsingZip /\ ~isParsingZip'
             /\ RowState(rowSendStates', id) /= rowSendStates[id] )
           => AttemptStartedFor(id) ]_vars

\* -------------------------------------------------------------------- C31
\* C31: whenever the diagnostic "manifest.json invalid JSON" is reported,
\* the parse has a result, its source is fallback and its records are those
\* of the scan of the file names.
C31_DiagnosticMeansFallback ==
  ( /\ call.of = "parseUploadedZip"
    /\ "manifest.json invalid JSON" \in SeqToSet(call.res.messages) )
  => /\ call.res.source = "fallback"
     /\ call.res.parsedRows = parseFallbackRows(call.arg.files)

\* -------------------------------------------------------------------- C32
\* The step is the contact refresh of syncContactsForKeys for mutation.key.
ContactsRefreshed == mutation.phase = "create" /\ mutation'.phase = "refresh"

\* C32: a contact refresh for a key recomputes email and status of the rows
\* of that key only; every other row is unchanged, the rows keep their
\* number, order and identity, and the send states and the audit cache are
\* not modified.
C32_RefreshOnlyRefreshedKeys ==
  [][ ContactsRefreshed =>
        /\ Len(rows') = Len(rows)
        /\ \A i \in 1..Len(rows) :
             /\ getRowId(rows'[i]) = getRowId(rows[i])
             /\ rows[i].account_key /= mutation.key => rows'[i] = rows[i]
             /\ rows[i].account_key = mutation.key =>
                  rows'[i].status = (IF rows'[i].contact_email \in {Null, ""}
                                     THEN "Blocked" ELSE "Pending")
        /\ rowSendStates' = rowSendStates
        /\ lastLogStatusByKey' = lastLogStatusByKey ]_vars

\* The contact of K2 was added and its row recomputed to Pending, next to a
\* Pending row of K1 that has a send state.
C32_Witness ==
  /\ mutation.phase = "refresh"
  /\ mutation.key = "K2"
  /\ Len(rows) = 2
  /\ rows[1].account_key = "K1" /\ rows[1].status = "Pending"
  /\ rows[2].account_key = "K2" /\ rows[2].status = "Pending"
  /\ rowSendStates /= EmptyMap

\* -------------------------------------------------------------------- C33
\* C33: every row that is sending eventually is sent or failed, whatever
\* the outcome of the extraction, of the request and of its response: from
\* a state with a sending row a state is reached in which every row that
\* has a send state is sent or failed.
C33_SendingSettles ==
  (\E id \in DOMAIN rowSendStates : rowSendStates[id].send_state = "sending")
    ~> (\A id \in DOMAIN rowSendStates : rowSendStates[id].send_state \in {"sent", "failed"})

\* The endpoint answered without a JSON body (its audit insert threw) and
\* the row was settled as failed; the audit query is under way.
C33_Witness ==
  \E i \in 1..Len(attempts) :
    /\ attempts[i].phase = "query"
    /\ attempts[i].ins = "throws"
    /\ ~attempts[i].thrown
    /\ attempts[i].final = "failed"
    /\ SendStateOf(rowSendStates, getRowId(attempts[i].row)) = "failed"

\* -------------------------------------------------------------------- C34
\* C34: a bulk run that set the in-progress flag eventually clears it, also
\* when a send or the audit query after it throws, and the flag is false
\* whenever no bulk run is executing.
C34_FlagIsCleared ==
  /\ isSendingAll ~> ~isSendingAll
  /\ [](~bulk.active => ~isSendingAll)

\* 'Send pending' started a run over both rows; the audit query after the
\* first row threw, the run ended with the second row untouched and the
\* flag is false.
C34_Witness ==
  /\ call.of = "sendPending" /\ call.res = "started"
  /\ ~isSendingAll /\ bulk = NoBulk /\ attempts = << >>
  /\ Len(rows) = 2
  /\ \A i \in 1..2 : rows[i].status = "Pending"
  /\ SendStateOf(rowSendStates, getRowId(rows[1])) \in {"sent", "failed"}
  /\ SendStateOf(rowSendStates, getRowId(rows[2])) = "idle"

\* -------------------------------------------------------------------- C35
\* C35: every entry of the send log has status sent exactly when its
\* message_id is not null and its error is null, and status failed exactly
\* when its message_id is null and its error is not null; the entry an
\* attempt's request wrote is sent only if the transport returned the
\* identifier that the entry holds.
C35_EntryMatchesOutcome ==
  /\ \A n \in 1..Len(send_logs) :
       LET e == send_logs[n] IN
       /\ e.status \in {"sent", "failed"}
       /\ (e.status = "sent") <=> (e.message_id /= Null /\ e.error = Null)
       /\ (e.status = "failed") <=> (e.message_id = Null /\ e.error /= Null)
  /\ \A i \in 1..Len(attempts) :
       (attempts[i].logged_at > 0 /\ send_logs[attempts[i].logged_at].status = "sent")
         => LET r == POST(<<>>, 1, Request(i), attempts[i].outcome, attempts[i].ins) IN
            /\ attempts[i].outcome = "ack"
            /\ r.transport
            /\ r.resp.messageId /= Null
            /\ send_logs[attempts[i].logged_at].message_id = r.resp.messageId

\* The log holds the sent entry of an acknowledged attempt and the failed
\* entry, with the masked error text, of a request of another session whose
\* transport threw.
C35_Witness ==
  \E i \in 1..Len(attempts) :
    /\ attempts[i].outcome = "ack" /\ attempts[i].logged_at > 0
    /\ send_logs[attempts[i].logged_at].status = "sent"
    /\ attempts[i].logged_at < Len(send_logs)
    /\ send_logs[Len(send_logs)].status = "failed"
    /\ send_logs[Len(send_logs)].error = TransportErrorMessage

\* -------------------------------------------------------------------- C36
\* C36: the rows parseUploadedZip yields for an archive have pairwise
\* distinct identities (account_key, zip_entry_path, pdf_filename), whatever
\* the manifest and the files of the archive.
C36_DistinctRowIds ==
  call.of = "parseUploadedZip"
    => \A i, j \in 1..Len(call.res.parsedRows) :
         i /= j => getRowId(call.res.parsedRows[i]) /= getRowId(call.res.parsedRows[j])

\* -------------------------------------------------------------------- C37
\* C37: every selected row identity is the identity of a row of the current
\* row list, and that row has status Pending.
C37_SelectionIsPendingRows ==
  \A id \in selectedRowIds :
    \E i \in 1..Len(rows) : getRowId(rows[i]) = id /\ rows[i].status = "Pending"

\* A row is selected, and the contacts of another key have just been
\* refreshed: the rows of that key, Blocked until then, are Pending and not
\* selected.
C37_Witness ==
  /\ mutation.phase = "refresh"
  /\ selectedRowIds /= {}
  /\ \E i \in 1..Len(rows) :
       /\ rows[i].account_key = mutation.key
       /\ rows[i].status = "Pending"
       /\ getRowId(rows[i]) \notin selectedRowIds

\* -------------------------------------------------------------------- C38
\* The request of the call submitted a sent entry to the audit insert: with
\* an insert that succeeds, the log ends with a sent entry for the request.
SentEntrySubmitted ==
  LET r == POSTRequest(call.arg.logs, Len(call.arg.logs) + 1, call.arg.dryRun,
                       call.arg.body, call.res.outcome, "ok")
  IN /\ Len(r.logs) = Len(call.arg.logs) + 1
     /\ r.logs[Len(r.logs)].status = "sent"
     /\ r.logs[Len(r.logs)].zip_filename = trim(call.arg.body.zip_filename)
     /\ r.logs[Len(r.logs)].account_key = trim(call.arg.body.account_key)

\* C38: a response of the send endpoint with ok = true implies that the
\* transport was called, that it returned a message identifier and that a
\* sent entry for the request was submitted to the log.
C38_OkMeansSent ==
  (call.of = "POST" /\ call.res.resp.ok)
    => /\ call.res.transport
       /\ call.res.resp.messageId /= Null
       /\ SentEntrySubmitted

\* -------------------------------------------------------------------- C39
\* The last attempt for the row failed and the endpoint logged it as failed:
\* the row's send state is failed, the log has a failed entry for its key
\* and archive, and no other row of the key has failed, so that the entry
\* is the row's.
FailedAndLogged(row) ==
  /\ SendStateOf(rowSendStates, getRowId(row)) = "failed"
  /\ \E n \in 1..Len(send_logs) :
       /\ send_logs[n].zip_filename = zipFilename
       /\ send_logs[n].account_key = row.account_key
       /\ send_logs[n].status = "failed"
  /\ \A j \in 1..Len(rows) :
       (rows[j].account_key = row.account_key /\ getRowId(rows[j]) /= getRowId(row))
         => SendStateOf(rowSendStates, getRowId(rows[j])) \in {"idle", "sent"}

\* The run that the step starts includes the row.
RetryIncludes(row) ==
  /\ bulk'.active /\ bulk'.mode = "failed"
  /\ \/ row \in SeqToSet(bulk'.queue)
     \/ \E i \in 1..Len(attempts') : attempts'[i].bulk /\ attempts'[i].row = row
     \/ rowSendStates'[getRowId(row)] /= rowSendStates[getRowId(row)]

\* C39: a click on 'Retry failed' while no attempt is under way starts a run
\* that includes every Pending row whose attempt failed and was logged as
\* failed and that is not sent in the session, also when another row of the
\* archive has the same key.
C39_RetryIncludesFailedRow ==
  [][ (attempts = << >> /\ retryAllFailed) =>
        \A i \in 1..Len(rows) :
          (rows[i].status = "Pending" /\ FailedAndLogged(rows[i]))
            => RetryIncludes(rows[i]) ]_vars

====
